---------------------------- MODULE Spec2Model ----------------------------
(***************************************************************************)
(* A model of the bgp-rs message codec: the byte readers, the ADD-PATH     *)
(* look-ahead, the AS_PATH width probe, the path attribute parser, the     *)
(* UPDATE and OPEN parsers, Reader::read and the UPDATE encoder.           *)
(*                                                                         *)
(* Bytes are naturals in 0..255.  A byte source is a sequence of bytes     *)
(* with a 0-based cursor position, as std::io::Cursor.  Multi-byte         *)
(* integers that are only stored and written back are kept as their        *)
(* big-endian digit sequences, so a width change (u32 written as u16) is   *)
(* visible; lengths and counts that take part in arithmetic are naturals.  *)
(* Every parser returns a record                                           *)
(*    [st   : "ok" | "err" | "panic",                                      *)
(*     kind : the std::io::ErrorKind of an error ("eof", "other",          *)
(*            "invalid"), or "none",                                       *)
(*     pos  : the cursor position of the source when the call ends,        *)
(*     val  : the parsed value]                                            *)
(***************************************************************************)
EXTENDS Integers, Naturals, Sequences, FiniteSets, TLC

VARIABLES
    stream,          \* the bytes of the byte source handed to the operation
    pos,             \* the cursor position of the byte source
    caps,            \* the Capabilities descriptor of the reader
    arg,             \* the scalar argument of the operation
    overflow_checks, \* TRUE in a build with arithmetic overflow checks (debug)
    eof_seeks_end,   \* TRUE when Cursor::read_exact seeks to the end on a short read
    op,              \* the operation performed last, "none" before any
    res              \* the result of that operation

vars == <<stream, pos, caps, arg, overflow_checks, eof_seeks_end, op, res>>

-----------------------------------------------------------------------------
(* Small helpers on naturals and byte sequences. *)

Pow2(n) == 2 ^ n

Min(a, b) == IF a < b THEN a ELSE b

\* The byte sequences of length exactly n / at most n over the alphabet S.
BytesOfLen(S, n) == [1..n -> S]

BytesUpTo(S, n) == UNION {BytesOfLen(S, k) : k \in 0..n}

\* The bytes of b from 0-based offset p, n of them.
Slice(b, p, n) == SubSeq(b, p + 1, p + n)

Ok(p, v) == [st |-> "ok", kind |-> "none", pos |-> p, val |-> v]

Err(k, p) == [st |-> "err", kind |-> k, pos |-> p, val |-> <<>>]

Panic(p) == [st |-> "panic", kind |-> "none", pos |-> p, val |-> <<>>]

NoRes == [st |-> "none", kind |-> "none", pos |-> 0, val |-> <<>>]

DefaultCaps == [EXTENDED_PATH_NLRI_SUPPORT |-> FALSE, FOUR_OCTET_ASN_SUPPORT |-> FALSE]

-----------------------------------------------------------------------------
(* util.rs: detect_add_path_prefix.                                        *)

\* (prefix_len + 7) / 8
AddrLen(prefix_len) == (prefix_len + 7) \div 8

\* v & (0xFF >> (prefix_len % 8)) > 0 : a bit is set after the end of the prefix.
BitsPastPrefix(v, prefix_len) == (v % Pow2(8 - (prefix_len % 8))) > 0

\* The first loop: records read as 4 path-ID bytes, a length byte, the
\* prefix bytes; i is the offset of the length byte.  FALSE means the loop
\* took one of its "return Ok(false)" exits.
RECURSIVE PathIdPass(_, _, _)
PathIdPass(b, i, max_bit_len) ==
    IF ~(i < Len(b)) THEN TRUE
    ELSE LET prefix_len == b[i + 1]
             i2 == i + 1 + AddrLen(prefix_len)
         IN  IF prefix_len > max_bit_len THEN FALSE
             ELSE IF i2 > Len(b) THEN FALSE
             ELSE IF prefix_len % 8 > 0 /\ BitsPastPrefix(b[i2], prefix_len) THEN FALSE
             ELSE PathIdPass(b, i2 + 4, max_bit_len)

\* The second loop: records read as a length byte and the prefix bytes.
\* TRUE means the loop took one of its "return Ok(true)" exits.
RECURSIVE PlainPassFails(_, _, _)
PlainPassFails(b, j, max_bit_len) ==
    IF ~(j < Len(b)) THEN FALSE
    ELSE LET prefix_len == b[j + 1]
             j2 == j + 1 + AddrLen(prefix_len)
         IN  IF prefix_len = 0 /\ (Len(b) - (j + 1)) > 0 THEN TRUE
             ELSE IF prefix_len > max_bit_len THEN TRUE
             ELSE IF j2 > Len(b) THEN TRUE
             ELSE IF prefix_len % 8 > 0 /\ BitsPastPrefix(b[j2], prefix_len) THEN TRUE
             ELSE PlainPassFails(b, j2, max_bit_len)

\* detect_add_path_prefix with the preference reversed: the path-ID layout
\* wins whenever the first loop passes.
detect_add_path_prefix_PathIdFirst(b, cursor_init, max_bit_len) ==
    IF ~PathIdPass(b, cursor_init + 4, max_bit_len) THEN Ok(cursor_init, FALSE)
    ELSE Ok(cursor_init, TRUE)

\* Every return path restores the cursor to cursor_init.
detect_add_path_prefix(b, cursor_init, max_bit_len) ==
    IF ~PathIdPass(b, cursor_init + 4, max_bit_len) THEN Ok(cursor_init, FALSE)
    ELSE IF PlainPassFails(b, cursor_init, max_bit_len) THEN Ok(cursor_init, TRUE)
    ELSE Ok(cursor_init, FALSE)

\* The cursor of detect_add_path_prefix.  cur.set_position(i) followed by
\* read_u8: the byte at i and the cursor after it, or the error of `?` with
\* the cursor left at i.
ReadByte(b, i) == IF i < Len(b) THEN Ok(i + 1, b[i + 1]) ELSE Err("eof", i)

\* cur.set_position(cursor_init) before a return and between the loops.
Restored_Left(cur, cursor_init) == cur

Restored(cur, cursor_init) == cursor_init

\* A loop that returned, with the cursor it returned with, or fell through.
Returned(cur) == [returned |-> TRUE, cursor |-> cur]

RECURSIVE PassCursor(_, _, _, _, _, _)

\* The end of an iteration, v being the read of the last byte of the prefix.
PassBits(v, prefix_len, pass, b, i, cursor_init, max_bit_len) ==
    IF v.st # "ok" THEN Returned(v.pos)
    ELSE IF BitsPastPrefix(v.val, prefix_len) THEN Returned(Restored(v.pos, cursor_init))
    ELSE PassCursor(pass, b, IF pass = 1 THEN i + 4 ELSE i, v.pos, cursor_init,
                    max_bit_len)

\* An iteration, r being the read of the length byte at i.
PassRead(r, pass, b, i, cursor_init, max_bit_len) ==
    IF r.st # "ok" THEN Returned(r.pos)
    ELSE IF pass = 2 /\ r.val = 0 /\ (Len(b) - (i + 1)) > 0
         THEN Returned(Restored(r.pos, cursor_init))
    ELSE IF r.val > max_bit_len THEN Returned(Restored(r.pos, cursor_init))
    ELSE IF i + 1 + AddrLen(r.val) > Len(b) THEN Returned(Restored(r.pos, cursor_init))
    ELSE IF r.val % 8 > 0
         THEN PassBits(ReadByte(b, i + 1 + AddrLen(r.val) - 1), r.val, pass, b,
                       i + 1 + AddrLen(r.val), cursor_init, max_bit_len)
    ELSE PassCursor(pass, b,
                    IF pass = 1 THEN i + 1 + AddrLen(r.val) + 4
                    ELSE i + 1 + AddrLen(r.val),
                    r.pos, cursor_init, max_bit_len)

\* The first loop (pass 1) and the second (pass 2) from offset i with the
\* cursor at cur.
PassCursor(pass, b, i, cur, cursor_init, max_bit_len) ==
    IF ~(i < Len(b)) THEN [returned |-> FALSE, cursor |-> cur]
    ELSE PassRead(ReadByte(b, i), pass, b, i, cursor_init, max_bit_len)

\* The cursor when detect_add_path_prefix returns.
AfterSecondPass(second, cursor_init) ==
    IF second.returned THEN second.cursor ELSE Restored(second.cursor, cursor_init)

AfterFirstPass(first, b, cursor_init, max_bit_len) ==
    IF first.returned THEN first.cursor
    ELSE AfterSecondPass(PassCursor(2, b, Restored(first.cursor, cursor_init),
                                    Restored(first.cursor, cursor_init), cursor_init,
                                    max_bit_len),
                         cursor_init)

CursorOnReturn(b, cursor_init, max_bit_len) ==
    AfterFirstPass(PassCursor(1, b, cursor_init + 4, cursor_init, cursor_init,
                              max_bit_len),
                   b, cursor_init, max_bit_len)

-----------------------------------------------------------------------------
(* The look-ahead applied to a buffer: SpecDetect.                         *)

MaxBuf == 6

DetBytes == {0, 1, 8, 128}

MaxBitLens == {16, 32, 255}

InitDetect ==
    /\ stream \in BytesUpTo(DetBytes, MaxBuf) \ {<<>>}
    /\ pos \in {0, 1}
    /\ pos < Len(stream)
    /\ arg \in MaxBitLens
    /\ caps = DefaultCaps
    /\ overflow_checks = FALSE
    /\ eof_seeks_end = FALSE
    /\ op = "none"
    /\ res = NoRes

DetectAddPathPrefix ==
    /\ op = "none"
    /\ op' = "detect_add_path_prefix"
    /\ res' = detect_add_path_prefix(stream, pos, arg)
    /\ pos' = CursorOnReturn(stream, pos, arg)
    /\ UNCHANGED <<stream, caps, arg, overflow_checks, eof_seeks_end>>

NextDetect == DetectAddPathPrefix

SpecDetect == InitDetect /\ [][NextDetect]_vars

-----------------------------------------------------------------------------
(* Byte readers.                                                           *)

\* Results of reads through a ReadCountingStream carry the bytes the
\* attribute may still read (rem).
COk(p, r, v) == [st |-> "ok", kind |-> "none", pos |-> p, rem |-> r, val |-> v]

CErr(k, p, r) == [st |-> "err", kind |-> k, pos |-> p, rem |-> r, val |-> <<>>]

CPanic(p, r) == [st |-> "panic", kind |-> "none", pos |-> p, rem |-> r, val |-> <<>>]

\* read_exact of n bytes on a Cursor over b at position p: all n bytes, or
\* UnexpectedEof.  After the failed read the cursor stands where it was or,
\* with a standard library that seeks to the end on a short read
\* (eof_seeks_end), at the end of b.
CursorRead(b, p, n, ee) ==
    IF p + n <= Len(b) THEN Ok(p + n, Slice(b, p, n))
    ELSE Err("eof", IF ee /\ p < Len(b) THEN Len(b) ELSE p)

\* read_exact of n bytes through ReadCountingStream (rem bytes left of the
\* attribute) over a Cursor: a read longer than rem is refused before the
\* inner stream is touched; a read the inner stream cannot fill consumes
\* what is there and ends in UnexpectedEof.
CountedRead(b, p, rem, n) ==
    IF n = 0 THEN COk(p, rem, <<>>)
    ELSE IF n > rem THEN CErr("other", p, rem)
    ELSE IF p + n <= Len(b) THEN COk(p + n, rem - n, Slice(b, p, n))
    ELSE CErr("eof", Len(b), rem - (Len(b) - Min(p, Len(b))))

\* Successive big-endian integers of the given sizes read from the counted
\* stream; the value is the sequence of their digit sequences after fields.
RECURSIVE ReadFields(_, _, _, _, _)

ReadField(r, b, sizes, fields) ==
    IF r.st # "ok" THEN r
    ELSE ReadFields(b, r.pos, r.rem, Tail(sizes), Append(fields, r.val))

ReadFields(b, p, rem, sizes, fields) ==
    IF sizes = <<>> THEN COk(p, rem, fields)
    ELSE ReadField(CountedRead(b, p, rem, Head(sizes)), b, sizes, fields)

\* n times the sizes.
RECURSIVE Times(_, _)
Times(n, sizes) == IF n = 0 THEN <<>> ELSE sizes \o Times(n - 1, sizes)

-----------------------------------------------------------------------------
(* update/attributes.rs: AS_PATH segments.                                 *)

\* The ASNs of one segment: count ASNs of the given width from offset off,
\* each widened to the four digits of a u32.
Elements(buf, off, count, width) ==
    [k \in 1..count |->
        IF width = 2 THEN <<0, 0>> \o Slice(buf, off + (k - 1) * 2, 2)
        ELSE Slice(buf, off + (k - 1) * 4, 4)]

\* The loop of parse_u16_segments (width 2, size: u16) and of
\* parse_u32_segments (width 4, size: i32) on the cursor over buf.
RECURSIVE ParseSegments(_, _, _, _, _, _)
ParseSegments(buf, c, size, width, oc, segments) ==
    IF size = 0 THEN Ok(c, segments)
    ELSE IF c + 2 > Len(buf) THEN Err("eof", c)
    ELSE LET segment_type == buf[c + 1]
             segment_length == buf[c + 2]
             used == 2 + segment_length * width
         IN  IF c + used > Len(buf) THEN Err("eof", c)
             ELSE IF segment_type \notin {1, 2} THEN Err("other", c + used)
             ELSE IF width = 2 /\ used > size /\ oc THEN Panic(c + used)
             ELSE ParseSegments(buf, c + used,
                      IF width = 2 THEN (size - used) % 65536 ELSE size - used,
                      width, oc,
                      Append(segments,
                             [type |-> segment_type,
                              asns |-> Elements(buf, c + 2, segment_length, width)]))

parse_u16_segments(buf, length, oc) == ParseSegments(buf, 0, length, 2, oc, <<>>)

parse_u32_segments(buf, length, oc) == ParseSegments(buf, 0, length, 4, oc, <<>>)

\* The inner while loop of parse_unknown_segments for one assumed width:
\* "eof" when a header read fails, "continue" when the 2-byte walk meets a
\* later segment of a type other than 1 and 2, else "end" with the cursor.
RECURSIVE SegmentWalk(_, _, _, _)
SegmentWalk(buf, c, assumed_as_len, total_segments) ==
    IF ~(c < Len(buf)) THEN [out |-> "end", c |-> c]
    ELSE IF c + 1 >= Len(buf) THEN [out |-> "eof", c |-> c + 1]
    ELSE LET segment_type == buf[c + 1]
             segment_len == buf[c + 2]
         IN  IF (assumed_as_len = 2 /\ total_segments >= 1)
                    /\ (segment_type < 1 \/ segment_type > 2)
             THEN [out |-> "continue", c |-> c + 2]
             ELSE SegmentWalk(buf, c + 2 + segment_len * assumed_as_len,
                              assumed_as_len, total_segments + 1)

\* The probe with the widths tried in the other order.
ProbeWidth_FourFirst(buf, length) ==
    LET w2 == SegmentWalk(buf, 0, 2, 0)
        w4 == SegmentWalk(buf, 0, 4, 0)
    IN  IF w4.out = "eof" THEN "eof"
        ELSE IF w4.out = "end" /\ w4.c = length THEN "four"
        ELSE IF w2.out = "eof" THEN "eof"
        ELSE IF w2.out = "end" /\ w2.c = length THEN "two"
        ELSE "none"

\* The width the 'as_len loop settles on: "two" or "four", "eof" when a walk ends in
\* a failed read, "none" when neither walk ends at the declared length.
ProbeWidth(buf, length) ==
    LET w2 == SegmentWalk(buf, 0, 2, 0)
        w4 == SegmentWalk(buf, 0, 4, 0)
    IN  IF w2.out = "eof" THEN "eof"
        ELSE IF w2.out = "end" /\ w2.c = length THEN "two"
        ELSE IF w4.out = "eof" THEN "eof"
        ELSE IF w4.out = "end" /\ w4.c = length THEN "four"
        ELSE "none"

\* Segment::parse_unknown_segments on a counted stream at (p, rem).
parse_unknown_segments(b, p, rem, length, oc) ==
    LET rd == CountedRead(b, p, rem, length)
    IN  IF rd.st # "ok" THEN rd
        ELSE LET buf == rd.val
                 w == ProbeWidth(buf, length)
                 r == IF w = "two" THEN parse_u16_segments(buf, length, oc)
                      ELSE parse_u32_segments(buf, length, oc)
             IN  IF w = "eof" THEN CErr("eof", rd.pos, rd.rem)
                 ELSE IF w = "none" THEN CErr("other", rd.pos, rd.rem)
                 ELSE [r EXCEPT !.pos = rd.pos] @@ [rem |-> rd.rem]

\* ASPath::parse: the capabilities are passed and not looked at; the width
\* of the ASNs is worked out from the bytes.
ASPath_Decoded(r, rd) ==
    IF rd.st # "ok" THEN rd ELSE [r EXCEPT !.pos = rd.pos] @@ [rem |-> rd.rem]

ASPath_Chosen(rd, length, cp, oc) ==
    IF rd.st # "ok" THEN rd
    ELSE ASPath_Decoded(IF cp.FOUR_OCTET_ASN_SUPPORT
                        THEN parse_u32_segments(rd.val, length, oc)
                        ELSE parse_u16_segments(rd.val, length, oc), rd)

ASPath_parse_ByCapability(b, p, rem, length, cp, oc) ==
    ASPath_Chosen(CountedRead(b, p, rem, length), length, cp, oc)

ASPath_parse(b, p, rem, length, cp, oc) == parse_unknown_segments(b, p, rem, length, oc)

-----------------------------------------------------------------------------
(* Segment::parse_unknown_segments applied to an attribute body:           *)
(* SpecAsPath.  arg is the declared attribute length.                      *)

MaxAsLen == 6

AsBytes == {0, 1, 2, 3}

InitAsPath ==
    /\ stream \in BytesUpTo(AsBytes, MaxAsLen)
    /\ pos = 0
    /\ arg \in {Len(stream), Len(stream) + 1}
    /\ caps = DefaultCaps
    /\ overflow_checks \in BOOLEAN
    /\ eof_seeks_end = FALSE
    /\ op = "none"
    /\ res = NoRes

ParseUnknownSegments ==
    /\ op = "none"
    /\ op' = "parse_unknown_segments"
    /\ res' = parse_unknown_segments(stream, pos, arg, arg, overflow_checks)
    /\ pos' = res'.pos
    /\ UNCHANGED <<stream, caps, arg, overflow_checks, eof_seeks_end>>

NextAsPath == ParseUnknownSegments

SpecAsPath == InitAsPath /\ [][NextAsPath]_vars

-----------------------------------------------------------------------------
(* update/mod.rs, update/flowspec.rs, update/nlri.rs: prefixes, Flowspec   *)
(* filters and the multiprotocol NLRI attributes.  bld is the build:       *)
(* [oc |-> overflow checks, ee |-> short reads seek to the end].  The      *)
(* result of a call that a function goes on to inspect is handed to an     *)
(* operator for the rest of the function.                                  *)

U16(v) == v[1] * 256 + v[2]

Build == [oc |-> overflow_checks, ee |-> eof_seeks_end]

AFIs == {1, 2, 25}

SAFIs == {1, 2, 4, 128, 133, 134}

\* Prefix::parse on a cursor; protocol is the AFI value.
Prefix_parse(b, c, protocol, bld) ==
    LET r1 == CursorRead(b, c, 1, bld.ee)
        length == r1.val[1]
        r2 == CursorRead(b, r1.pos, (length + 7) \div 8, bld.ee)
    IN  IF r1.st # "ok" THEN r1
        ELSE IF protocol \notin {1, 2} THEN Panic(r1.pos)
        ELSE IF length > (IF protocol = 1 THEN 32 ELSE 128) THEN Err("other", r1.pos)
        ELSE IF r2.st # "ok" THEN r2
        ELSE Ok(r2.pos, [protocol |-> protocol, length |-> length, prefix |-> r2.val])

find_length(b) == Pow2((b \div 16) % 4)

is_end_of_list(b) == (b \div 128) % 2 # 0

\* A value of n bytes widened to the four digits of a u32.
Widen(v) == [k \in 1..(4 - Len(v)) |-> 0] \o v

RECURSIVE NumericValues(_, _, _, _)
RECURSIVE ByteValues(_, _, _, _)

\* One (operator, value) pair of a variable length filter, r1 being the read
\* of the operator.
NumericValue(r1, b, bld, values) ==
    LET operator == r1.val[1]
        length == find_length(operator)
        r2 == CursorRead(b, r1.pos, length, bld.ee)
    IN  IF r1.st # "ok" THEN r1
        ELSE IF length \notin {1, 2, 4} THEN Panic(r1.pos)
        ELSE IF r2.st # "ok" THEN r2
        ELSE IF is_end_of_list(operator)
             THEN Ok(r2.pos, Append(values, <<operator, Widen(r2.val)>>))
        ELSE NumericValues(b, r2.pos, bld, Append(values, <<operator, Widen(r2.val)>>))

\* The loop of the variable length operator/value filters (types 3..6, 9, 10).
NumericValues(b, c, bld, values) ==
    NumericValue(CursorRead(b, c, 1, bld.ee), b, bld, values)

\* One (operator, value) pair of a single byte filter, r being the read of
\* both bytes.
ByteValue(r, b, bld, values) ==
    IF r.st # "ok" THEN r
    ELSE IF is_end_of_list(r.val[1]) THEN Ok(r.pos, Append(values, <<r.val[1], <<r.val[2]>>>>))
    ELSE ByteValues(b, r.pos, bld, Append(values, <<r.val[1], <<r.val[2]>>>>))

\* The loop of the single byte operator/value filters (types 7, 8, 11, 12).
ByteValues(b, c, bld, values) ==
    ByteValue(CursorRead(b, c, 2, bld.ee), b, bld, values)

\* A prefix filter (types 1 and 2), the cursor at the prefix length.
PrefixFilter(filter_type, b, c, afi, bld) ==
    LET r1 == CursorRead(b, c, 1, bld.ee)
        prefix_length == r1.val[1]
        r2 == IF afi = 2 THEN CursorRead(b, r1.pos, 1, bld.ee) ELSE r1
        r3 == CursorRead(b, r2.pos, (prefix_length + 7) \div 8, bld.ee)
    IN  IF r1.st # "ok" THEN r1
        ELSE IF r2.st # "ok" THEN r2
        ELSE IF r3.st # "ok" THEN r3
        ELSE Ok(r3.pos, [type |-> filter_type,
                         prefix |-> [protocol |-> afi, length |-> prefix_length,
                                     prefix |-> r3.val]])

\* An operator/value filter from the pairs v its loop returned; TcpFlags
\* (type 9) keeps the low 16 bits of each value.
ValuesFilter(filter_type, v) ==
    IF v.st # "ok" THEN v
    ELSE Ok(v.pos, [type |-> filter_type,
                    values |-> IF filter_type = 9
                               THEN [k \in 1..Len(v.val) |->
                                        <<v.val[k][1], SubSeq(v.val[k][2], 3, 4)>>]
                               ELSE v.val])

\* The match on the filter type, r0 being the read of the type.
FilterOfType(r0, b, afi, bld) ==
    IF r0.st # "ok" THEN r0
    ELSE IF r0.val[1] \in {1, 2} THEN PrefixFilter(r0.val[1], b, r0.pos, afi, bld)
    ELSE IF r0.val[1] \in {3, 4, 5, 6, 9, 10}
         THEN ValuesFilter(r0.val[1], NumericValues(b, r0.pos, bld, <<>>))
    ELSE IF r0.val[1] \in {7, 8, 11, 12}
         THEN ValuesFilter(r0.val[1], ByteValues(b, r0.pos, bld, <<>>))
    ELSE Err("other", r0.pos)

\* FlowspecFilter::parse on a cursor.
FlowspecFilter_parse(b, c, afi, bld) ==
    FilterOfType(CursorRead(b, c, 1, bld.ee), b, afi, bld)

RECURSIVE FlowspecFilters(_, _, _, _, _, _)

\* The bookkeeping after one filter f parsed from position c.
FlowspecNext(f, b, c, afi, nlri_length, bld, filters) ==
    IF f.st # "ok" THEN f
    ELSE IF (f.pos - c) % 256 > nlri_length /\ bld.oc THEN Panic(f.pos)
    ELSE FlowspecFilters(b, f.pos, afi, (nlri_length - ((f.pos - c) % 256)) % 256,
                         bld, Append(filters, f.val))

\* The filters of one Flowspec NLRI (nlri.rs, `while nlri_length > 0`).
FlowspecFilters(b, c, afi, nlri_length, bld, filters) ==
    IF nlri_length = 0 THEN Ok(c, filters)
    ELSE FlowspecNext(FlowspecFilter_parse(b, c, afi, bld), b, c, afi, nlri_length,
                      bld, filters)

\* AFI::empty_buffer: the length of the buffer of an IPv4 / IPv6 address.
empty_buffer(afi) == IF afi = 1 THEN 4 ELSE 16

\* A prefix read into the front of an empty_buffer.
InBuffer(afi, v) == v \o [k \in 1..(empty_buffer(afi) - Len(v)) |-> 0]

\* One labelled route (SAFI::Mpls).
MplsRoute(b, c, afi, bld) ==
    LET d == detect_add_path_prefix(b, c, 255)
        r0 == IF d.val THEN CursorRead(b, c, 4, bld.ee) ELSE Ok(c, <<>>)
        r1 == CursorRead(b, r0.pos, 1, bld.ee)
        len_bits == r1.val[1]
        len_bytes == (len_bits + 7) \div 8
        r2 == CursorRead(b, r1.pos, 3, bld.ee)
        remaining == (len_bytes - 3) % 256
        r3 == CursorRead(b, r2.pos, remaining, bld.ee)
        pfx_len == (len_bits - 24) % 256
    IN  IF r0.st # "ok" THEN r0
        ELSE IF r1.st # "ok" THEN r1
        ELSE IF len_bits = 0 THEN Err("other", r1.pos)
        ELSE IF r2.st # "ok" THEN r2
        ELSE IF len_bytes < 3 /\ bld.oc THEN Panic(r2.pos)
        ELSE IF afi \notin {1, 2} THEN Panic(r2.pos)
        ELSE IF remaining > empty_buffer(afi) THEN Panic(r2.pos)
        ELSE IF r3.st # "ok" THEN r3
        ELSE IF len_bits < 24 /\ bld.oc THEN Panic(r3.pos)
        ELSE Ok(r3.pos,
                [t |-> IF Len(r0.val) = 4 THEN "IP_MPLS_WITH_PATH_ID" ELSE "IP_MPLS",
                 prefix |-> [protocol |-> afi, length |-> pfx_len,
                             prefix |-> InBuffer(afi, r3.val)],
                 path_id |-> r0.val])

\* One VPN route (SAFI::MplsVpn).
MplsVpnRoute(b, c, afi, bld) ==
    LET r1 == CursorRead(b, c, 1, bld.ee)
        len_bits == r1.val[1]
        len_bytes == (len_bits + 7) \div 8
        r2 == CursorRead(b, r1.pos, 3, bld.ee)
        remaining == (len_bytes - 3) % 256
        rd == CursorRead(b, r2.pos, 8, bld.ee)
        r3 == CursorRead(b, rd.pos, remaining - 8, bld.ee)
        pfx_len == (len_bits - 24 - 64) % 256
    IN  IF r1.st # "ok" THEN r1
        ELSE IF r2.st # "ok" THEN r2
        ELSE IF len_bytes < 3 /\ bld.oc THEN Panic(r2.pos)
        ELSE IF rd.st # "ok" THEN rd
        ELSE IF afi \notin {1, 2} THEN Panic(rd.pos)
        ELSE IF remaining < 8 THEN Panic(rd.pos)
        ELSE IF remaining - 8 > empty_buffer(afi) THEN Panic(rd.pos)
        ELSE IF r3.st # "ok" THEN r3
        ELSE IF len_bits < 88 /\ bld.oc THEN Panic(r3.pos)
        ELSE Ok(r3.pos,
                [t |-> "IP_VPN_MPLS", rd |-> rd.val,
                 prefix |-> [protocol |-> afi, length |-> pfx_len,
                             prefix |-> InBuffer(afi, r3.val)]])

\* The Flowspec NLRI made of the filters f.
FlowspecNlri(f) ==
    IF f.st # "ok" THEN f ELSE Ok(f.pos, [t |-> "FLOWSPEC", filters |-> f.val])

\* One Flowspec NLRI of MP_REACH_NLRI (SAFI::Flowspec), r1 being the read of
\* its length byte.
FlowspecRoute(r1, b, afi, bld) ==
    IF r1.st # "ok" THEN r1
    ELSE FlowspecNlri(FlowspecFilters(b, r1.pos, afi, r1.val[1], bld, <<>>))

\* One route of the default branch: IP, or IP_WITH_PATH_ID when the
\* capabilities carry EXTENDED_PATH_NLRI_SUPPORT.
DefaultRoute(b, c, afi, cp, bld) ==
    LET r0 == IF cp.EXTENDED_PATH_NLRI_SUPPORT THEN CursorRead(b, c, 4, bld.ee)
              ELSE Ok(c, <<>>)
        pf == Prefix_parse(b, r0.pos, afi, bld)
    IN  IF r0.st # "ok" THEN r0
        ELSE IF pf.st # "ok" THEN pf
        ELSE Ok(pf.pos,
                IF cp.EXTENDED_PATH_NLRI_SUPPORT
                THEN [t |-> "IP_WITH_PATH_ID", prefix |-> pf.val, path_id |-> r0.val]
                ELSE [t |-> "IP", prefix |-> pf.val])

RECURSIVE MpRoutes(_, _, _, _, _, _, _, _)

\* The loop goes on after the route `one`, or ends with its error.
MpNext(one, b, afi, safi, cp, bld, reach, routes) ==
    IF one.st # "ok" THEN one
    ELSE MpRoutes(b, one.pos, afi, safi, cp, bld, reach, Append(routes, one.val))

\* The route loop over the NLRI buffer of MP_REACH_NLRI (reach) and of
\* MP_UNREACH_NLRI (~reach).
MpRoutes(b, c, afi, safi, cp, bld, reach, routes) ==
    IF ~(c < Len(b)) THEN Ok(c, routes)
    ELSE MpNext(IF safi = 4 THEN MplsRoute(b, c, afi, bld)
                ELSE IF safi = 128 THEN MplsVpnRoute(b, c, afi, bld)
                ELSE IF safi = 133 /\ reach
                     THEN FlowspecRoute(CursorRead(b, c, 1, bld.ee), b, afi, bld)
                ELSE IF safi \in {133, 134} /\ ~reach THEN Panic(c)
                ELSE DefaultRoute(b, c, afi, cp, bld),
                b, afi, safi, cp, bld, reach, routes)

\* The single L2VPN record of MP_REACH_NLRI, r being the read of its 19 bytes.
L2vpnRoute(r) ==
    IF r.st # "ok" THEN r
    ELSE Ok(r.pos, <<[t |-> "L2VPN", rd |-> SubSeq(r.val, 3, 10),
                      ve_id |-> SubSeq(r.val, 11, 12),
                      label_block_offset |-> SubSeq(r.val, 13, 14),
                      label_block_size |-> SubSeq(r.val, 15, 16),
                      label_base |-> SubSeq(r.val, 17, 19)]>>)

\* The result of an inner cursor as the result of the counted stream that
\* stands at (p, rem).
Lift(inner, p, rem, v) ==
    [st |-> inner.st, kind |-> inner.kind, pos |-> p, rem |-> rem,
     val |-> IF inner.st = "ok" THEN v ELSE <<>>]

\* The MPReachNLRI value built from the routes.
ReachResult(routes, p, rem, afi, safi, next_hop) ==
    Lift(routes, p, rem, [afi |-> afi, safi |-> safi, next_hop |-> next_hop,
                          announced_routes |-> routes.val])

\* MPReachNLRI::parse from the NLRI on: h holds afi, safi, next hop length,
\* next hop and the reserved byte, r6 is the read of the NLRI buffer.
ReachNlri(h, r6, cp, bld) ==
    IF r6.st # "ok" THEN r6
    ELSE ReachResult(IF U16(h.val[1]) = 25
                     THEN L2vpnRoute(CursorRead(r6.val, 0, 19, bld.ee))
                     ELSE MpRoutes(r6.val, 0, U16(h.val[1]), h.val[2][1], cp, bld,
                                   TRUE, <<>>),
                     r6.pos, r6.rem, U16(h.val[1]), h.val[2][1], h.val[4])

\* MPReachNLRI::parse after the next hop: the size of the NLRI.
ReachSize(h, b, length, cp, bld) ==
    IF h.st # "ok" THEN h
    ELSE IF 5 + h.val[3][1] > 255 /\ bld.oc THEN CPanic(h.pos, h.rem)
    ELSE ReachNlri(h, CountedRead(b, h.pos, h.rem,
                                  length - ((5 + h.val[3][1]) % 256)), cp, bld)

\* MPReachNLRI::parse after afi and safi (h): next hop length, next hop,
\* reserved byte.
ReachNextHop(h, b, length, cp, bld) ==
    IF h.st # "ok" THEN h
    ELSE ReachSize(ReadFields(b, h.pos, h.rem, <<h.val[3][1], 1>>, h.val),
                   b, length, cp, bld)

\* afi and safi as MPReachNLRI::parse and MPUnreachNLRI::parse read them,
\* and the next n bytes after them in one more field.
Family(b, p, rem, n) ==
    LET r1 == CountedRead(b, p, rem, 2)
        r2 == CountedRead(b, r1.pos, r1.rem, 1)
        r3 == CountedRead(b, r2.pos, r2.rem, n)
    IN  IF r1.st # "ok" THEN r1
        ELSE IF U16(r1.val) \notin AFIs THEN CErr("other", r1.pos, r1.rem)
        ELSE IF r2.st # "ok" THEN r2
        ELSE IF r2.val[1] \notin SAFIs THEN CErr("other", r2.pos, r2.rem)
        ELSE IF r3.st # "ok" THEN r3
        ELSE COk(r3.pos, r3.rem, <<r1.val, r2.val, r3.val>>)

\* MPReachNLRI::parse on the counted stream.
MPReachNLRI_parse(b, p, rem, length, cp, bld) ==
    ReachNextHop(Family(b, p, rem, 1), b, length, cp, bld)

\* The MPUnreachNLRI value built from the routes.
UnreachResult(routes, p, rem, afi, safi) ==
    Lift(routes, p, rem, [afi |-> afi, safi |-> safi,
                          withdrawn_routes |-> routes.val])

\* MPUnreachNLRI::parse from the route loop on: h holds afi, safi and the
\* NLRI buffer.
UnreachNlri(h, cp, bld) ==
    IF h.st # "ok" THEN h
    ELSE UnreachResult(MpRoutes(h.val[3], 0, U16(h.val[1]), h.val[2][1], cp, bld,
                                FALSE, <<>>),
                       h.pos, h.rem, U16(h.val[1]), h.val[2][1])

\* MPUnreachNLRI::parse on the counted stream.
MPUnreachNLRI_parse(b, p, rem, length, cp, bld) ==
    UnreachNlri(Family(b, p, rem, length - 3), cp, bld)

-----------------------------------------------------------------------------
(* update/attributes.rs: PathAttribute::parse.                             *)

\* A value of the PathAttribute enum: the type code and the payload.
Attr(code, v) == [id |-> code, v |-> v]

\* Origin::parse.
Origin_parse(b, p, rem) ==
    LET r == CountedRead(b, p, rem, 1)
    IN  IF r.st # "ok" THEN r
        ELSE IF r.val[1] \notin {0, 1, 2} THEN CErr("other", r.pos, r.rem)
        ELSE r

\* The attributes whose decoder is a run of fixed-size integers, and the
\* sizes it reads for the declared length.
FixedSizes(code, length) ==
    CASE code = 3 -> IF length = 4 THEN <<4>> ELSE <<16>>
      [] code \in {4, 5, 9} -> <<4>>
      [] code = 6 -> <<>>
      [] code = 7 -> IF length = 6 THEN <<2, 4>> ELSE <<4, 4>>
      [] code \in {8, 10} -> Times(length \div 4, <<4>>)
      [] code = 11 -> <<2, 4>>
      [] code = 16 -> Times(length \div 8, <<8>>)
      [] code = 18 -> <<4, 4>>
      [] code = 21 -> <<1, 4>>
      [] code = 25 -> <<1, 1, 16, 2>>
      [] code = 32 -> Times(length \div 12, <<4, 4, 4>>)

FixedCodes == {3, 4, 5, 6, 7, 8, 9, 10, 11, 16, 18, 21, 25, 32}

\* The result r of a counted read with its value replaced by v.
WithVal(r, v) == [r EXCEPT !.val = IF r.st = "ok" THEN v ELSE <<>>]

\* The attribute of the given code whose payload is the value of r.
Tagged(r, code) == WithVal(r, Attr(code, r.val))

\* AGGREGATOR: the ASN is kept as a u32 whatever its width on the wire.
Aggregator(r) ==
    WithVal(r, Attr(7, IF r.st = "ok" THEN <<Widen(r.val[1]), r.val[2]>> ELSE <<>>))

\* CONNECTOR: the body r is read whole, then a u16, a u64 and the u32 address
\* are read from a cursor over it.
Connector(r, bld) ==
    IF r.st # "ok" THEN r
    ELSE IF CursorRead(r.val, 0, 14, bld.ee).st # "ok" THEN CErr("eof", r.pos, r.rem)
    ELSE WithVal(r, Attr(20, SubSeq(r.val, 11, 14)))

\* PMSI_TUNNEL after flags and label (r): the identifier of length - 4 bytes.
PmsiTunnel(r, b, length) ==
    IF r.st # "ok" THEN r
    ELSE Tagged(ReadFields(b, r.pos, r.rem, <<length - 4>>, r.val), 22)

\* TUNNEL_ENCAPSULATION after type and length (r): the value.
TunnelEncapsulation(r, b) ==
    IF r.st # "ok" THEN r
    ELSE Tagged(ReadFields(b, r.pos, r.rem, <<U16(r.val[2])>>, <<r.val[1]>>), 23)

\* AIGP after type and length (r): the value of length - 3 bytes.
Aigp(r, b) ==
    IF r.st # "ok" THEN r
    ELSE IF U16(r.val[2]) < 3 THEN CErr("other", r.pos, r.rem)
    ELSE Tagged(ReadFields(b, r.pos, r.rem, <<U16(r.val[2]) - 3>>, <<r.val[1]>>), 26)

\* An attribute without decoder: the body r is read and dropped.
Unknown(r) == IF r.st # "ok" THEN r ELSE CErr("other", r.pos, r.rem)

RECURSIVE PathAttribute_parse(_, _, _, _)
RECURSIVE AttrSetLoop(_, _, _, _, _)

\* ATTR_SET after the ASN and the buffer of inner attributes (r).
AttrSetResult(attributes, r) ==
    Lift(attributes, r.pos, r.rem, Attr(128, <<r.val[1], attributes.val>>))

AttrSet(r, cp, bld) ==
    IF r.st # "ok" THEN r
    ELSE AttrSetResult(AttrSetLoop(r.val[2], 0, cp, bld, <<>>), r)

\* PathAttribute::parse_limited on the counted stream at (p, rem).
parse_limited(b, p, rem, cp, code, length, bld) ==
    IF code = 1 THEN Tagged(Origin_parse(b, p, rem), 1)
    ELSE IF code \in {2, 17}
         THEN Tagged(ASPath_parse(b, p, rem, length, cp, bld.oc), code)
    ELSE IF code = 7
         THEN Aggregator(ReadFields(b, p, rem, FixedSizes(7, length), <<>>))
    ELSE IF code \in FixedCodes
         THEN Tagged(ReadFields(b, p, rem, FixedSizes(code, length), <<>>), code)
    ELSE IF code = 14 THEN Tagged(MPReachNLRI_parse(b, p, rem, length, cp, bld), 14)
    ELSE IF code = 15 THEN Tagged(MPUnreachNLRI_parse(b, p, rem, length, cp, bld), 15)
    ELSE IF code = 20 THEN Connector(CountedRead(b, p, rem, length), bld)
    ELSE IF code = 22 THEN PmsiTunnel(ReadFields(b, p, rem, <<1, 4>>, <<>>), b, length)
    ELSE IF code = 23 THEN TunnelEncapsulation(ReadFields(b, p, rem, <<2, 2>>, <<>>), b)
    ELSE IF code = 26 THEN Aigp(ReadFields(b, p, rem, <<1, 2>>, <<>>), b)
    ELSE IF code = 28 THEN WithVal(CountedRead(b, p, rem, length), Attr(28, <<>>))
    ELSE IF code = 128
         THEN AttrSet(ReadFields(b, p, rem, <<4, length - 4>>, <<>>), cp, bld)
    ELSE Unknown(CountedRead(b, p, rem, length))

\* The loop of ATTR_SET goes on after the inner attribute `result`: one that
\* fails to parse is reported and left out.
AttrSetNext(result, buffer, cp, bld, attributes) ==
    IF result.st = "panic" THEN result
    ELSE AttrSetLoop(buffer, result.pos, cp, bld,
                     IF result.st = "ok" THEN Append(attributes, result.val)
                     ELSE attributes)

\* The loop of ATTR_SET over its buffer.
AttrSetLoop(buffer, c, cp, bld, attributes) ==
    IF ~(c < Len(buffer)) THEN Ok(c, attributes)
    ELSE AttrSetNext(PathAttribute_parse(buffer, c, cp, bld), buffer, cp, bld,
                     attributes)

\* The end of PathAttribute::parse: what the decoder left of the declared
\* length is read and dropped, and the result res0 of the decoder returned.
SkipRest(res0, b, bld) ==
    IF res0.st = "panic" THEN Panic(res0.pos)
    ELSE IF res0.rem # 0 /\ CursorRead(b, res0.pos, res0.rem, bld.ee).st # "ok"
         THEN CursorRead(b, res0.pos, res0.rem, bld.ee)
    ELSE [st |-> res0.st, kind |-> res0.kind, pos |-> res0.pos + res0.rem,
          val |-> res0.val]

\* PathAttribute::parse on a cursor over b at position p.
PathAttribute_parse(b, p, cp, bld) ==
    LET r1 == CursorRead(b, p, 1, bld.ee)
        flags == r1.val[1]
        r2 == CursorRead(b, r1.pos, 1, bld.ee)
        code == r2.val[1]
        r3 == CursorRead(b, r2.pos, IF (flags \div 16) % 2 = 0 THEN 1 ELSE 2, bld.ee)
        length == IF Len(r3.val) = 1 THEN r3.val[1] ELSE U16(r3.val)
    IN  IF r1.st # "ok" THEN r1
        ELSE IF r2.st # "ok" THEN r2
        ELSE IF r3.st # "ok" THEN r3
        ELSE SkipRest(parse_limited(b, r3.pos, length, cp, code, length, bld), b, bld)

-----------------------------------------------------------------------------
(* PathAttribute::parse applied to a cursor at the start of an attribute:  *)
(* SpecAttr.                                                               *)

MaxBody == 4

MaxTail == 4

MaxInner == 6

AttrBytes == {0, 1, 2}

MpBytes == {0, 1, 3, 24, 129, 176}

SetBytes == {0, 3, 6, 64}

AttrCodes ==
    {1, 2, 3, 4, 5, 6, 7, 8, 9, 10, 11, 14, 15, 16, 17, 18, 20, 21, 22, 23, 25,
     26, 28, 32, 128, 99}

ExtendedCaps == [DefaultCaps EXCEPT !.EXTENDED_PATH_NLRI_SUPPORT = TRUE]

Zeros(n) == [k \in 1..n |-> 0]

\* The attribute header for a declared length, in the one-byte or (flag
\* 0x10) the two-byte length form.
AttrHeader(flags, code, length) ==
    IF (flags \div 16) % 2 = 0 THEN <<flags, code, length>>
    ELSE <<flags, code, length \div 256, length % 256>>

\* Any attribute code over a short body, declared shorter, equal or longer.
GenericAttrs ==
    {AttrHeader(f, c, l) \o body :
        f \in {64, 80}, c \in AttrCodes, l \in 0..(MaxBody + 1),
        body \in BytesUpTo(AttrBytes, MaxBody)}

\* MP_REACH_NLRI (empty next hop) and MP_UNREACH_NLRI over an NLRI tail,
\* followed by the first byte of a next attribute.
MpBody(code, afi, safi, tail) ==
    <<0, afi, safi>> \o (IF code = 14 THEN <<0, 0>> ELSE <<>>) \o tail

MpAttrs ==
    {AttrHeader(128, c, Len(MpBody(c, afi, safi, tail)))
        \o MpBody(c, afi, safi, tail) \o <<64>> :
        c \in {14, 15}, afi \in AFIs, safi \in {1, 4, 128, 133},
        tail \in BytesUpTo(MpBytes, MaxTail)}

\* ATTR_SET over a buffer of inner attributes.
SetAttrs ==
    {AttrHeader(192, 128, 4 + Len(inner)) \o <<0, 0, 0, 1>> \o inner :
        inner \in BytesUpTo(SetBytes, MaxInner)}

\* MP_REACH_NLRI with a next hop of 251 bytes and one NLRI byte, followed by
\* an ORIGIN attribute.
LongNextHopAttr ==
    AttrHeader(144, 14, 257) \o <<0, 1, 1, 251>> \o Zeros(251) \o <<0, 0>>
        \o <<64, 1, 1, 0>>

\* Attributes whose bodies are longer than MaxBody, each followed by an
\* ORIGIN attribute.
SampleAttrs ==
    {a \o <<64, 1, 1, 0>> : a \in {
        <<64, 3, 16>> \o Zeros(15) \o <<1>>,
        <<192, 7, 6, 0, 100, 10, 0, 0, 1>>,
        <<192, 7, 8, 0, 1, 0, 100, 10, 0, 0, 1>>,
        <<192, 16, 8, 0, 2, 0, 100, 0, 0, 0, 1>>,
        <<192, 18, 8, 0, 1, 0, 100, 10, 0, 0, 1>>,
        <<192, 20, 14>> \o Zeros(10) \o <<10, 0, 0, 1>>,
        <<192, 21, 5, 3, 0, 0, 0, 100>>,
        <<192, 22, 9, 0, 0, 0, 1, 0, 10, 0, 0, 1>>,
        <<192, 23, 6, 0, 1, 0, 2, 7, 7>>,
        <<192, 25, 20>> \o Zeros(19) \o <<1>>,
        <<128, 26, 11, 1, 0, 11, 0, 0, 0, 0, 0, 0, 0, 9>>,
        <<192, 32, 12, 0, 0, 0, 1, 0, 0, 0, 2, 0, 0, 0, 3>>,
        <<128, 14, 24, 0, 25, 1, 0, 0>> \o Zeros(18) \o <<1>>,
        <<128, 14, 21, 0, 1, 128, 0, 0, 120, 0, 0, 1>> \o Zeros(11) \o <<1>>,
        <<128, 14, 9, 0, 1, 134, 0, 0, 24, 10, 0, 0>>,
        <<128, 15, 7, 0, 1, 2, 24, 10, 0, 0>>,
        <<128, 14, 13, 0, 1, 133, 0, 0, 7, 1, 40, 10, 0, 0, 0, 1>>,
        <<128, 14, 11, 0, 1, 4, 0, 0, 40, 0, 1, 1, 10, 1>>,
        <<128, 14, 17, 0, 1, 128, 0, 0, 0, 0, 1, 1>> \o Zeros(7) \o <<1>>,
        <<144, 14, 1, 7, 0, 1, 133, 0, 0, 1, 1, 0>>
            \o Times(7, <<1, 255>> \o Zeros(32))
            \o <<1, 120>> \o Zeros(15)}}

InitAttr ==
    /\ \/ /\ stream \in GenericAttrs
          /\ caps = DefaultCaps
          /\ overflow_checks = FALSE
          /\ eof_seeks_end = FALSE
       \/ /\ stream \in MpAttrs
          /\ caps \in {DefaultCaps, ExtendedCaps}
          /\ overflow_checks \in BOOLEAN
          /\ eof_seeks_end = FALSE
       \/ /\ stream \in SetAttrs
          /\ caps = DefaultCaps
          /\ overflow_checks = FALSE
          /\ eof_seeks_end \in BOOLEAN
       \/ /\ stream \in SampleAttrs \cup {LongNextHopAttr}
          /\ caps = DefaultCaps
          /\ overflow_checks \in BOOLEAN
          /\ eof_seeks_end \in BOOLEAN
    /\ pos = 0
    /\ arg = 0
    /\ op = "none"
    /\ res = NoRes

ParseAttribute ==
    /\ op = "none"
    /\ op' = "PathAttribute::parse"
    /\ res' = PathAttribute_parse(stream, pos, caps, Build)
    /\ pos' = res'.pos
    /\ UNCHANGED <<stream, caps, arg, overflow_checks, eof_seeks_end>>

NextAttr == ParseAttribute

SpecAttr == InitAttr /\ [][NextAttr]_vars

-----------------------------------------------------------------------------
(* update/mod.rs: Update::parse.                                           *)

\* The loop over the withdrawn routes (max_bit_len 255) and over the NLRI
\* (max_bit_len 32) of an UPDATE: the look-ahead decides the layout of each
\* route.
RECURSIVE IpRoutes(_, _, _, _, _)
IpRoutes(buffer, c, max_bit_len, bld, routes) ==
    IF ~(c < Len(buffer)) THEN Ok(c, routes)
    ELSE LET d == detect_add_path_prefix(buffer, c, max_bit_len)
             r0 == IF d.val THEN CursorRead(buffer, c, 4, bld.ee) ELSE Ok(c, <<>>)
             pf == Prefix_parse(buffer, r0.pos, 1, bld)
         IN  IF r0.st # "ok" THEN r0
             ELSE IF pf.st # "ok" THEN pf
             ELSE IpRoutes(buffer, pf.pos, max_bit_len, bld,
                           Append(routes,
                               IF Len(r0.val) = 4
                               THEN [t |-> "IP_WITH_PATH_ID", prefix |-> pf.val,
                                     path_id |-> r0.val]
                               ELSE [t |-> "IP", prefix |-> pf.val]))

RECURSIVE AttributeLoop(_, _, _, _, _)

\* The attribute loop goes on after the attribute a: UnexpectedEof ends the
\* parse, any other error skips the attribute.
AttributeNext(a, buffer, cp, bld, attributes) ==
    IF a.st = "panic" THEN a
    ELSE IF a.st = "err" /\ a.kind = "eof" THEN a
    ELSE AttributeLoop(buffer, a.pos, cp, bld,
                       IF a.st = "ok" THEN Append(attributes, a.val) ELSE attributes)

\* The loop over the path attribute buffer.
AttributeLoop(buffer, c, cp, bld, attributes) ==
    IF ~(c < Len(buffer)) THEN Ok(c, attributes)
    ELSE AttributeNext(PathAttribute_parse(buffer, c, cp, bld), buffer, cp, bld,
                       attributes)

\* The result of an inner cursor as the result of the stream at position p.
At(inner, p) == [inner EXCEPT !.pos = p]

HeaderTooShort(length) == length < 23

\* The "bogus length" tests on a section length against what the header
\* leaves for it.
SectionTooLong_Never(section_len, nlri_length) == FALSE

SectionTooLong(section_len, nlri_length) == section_len > nlri_length

\* A section length and the section: the u16 is read, tested against what
\* the header leaves (nlri_length), and the buffer of that length is read.
Section(b, p, nlri_length, bld) ==
    LET r1 == CursorRead(b, p, 2, bld.ee)
        r2 == CursorRead(b, r1.pos, U16(r1.val), bld.ee)
    IN  IF r1.st # "ok" THEN r1
        ELSE IF SectionTooLong(U16(r1.val), nlri_length) THEN Err("other", r1.pos)
        ELSE r2

\* Update::parse, the end: the routes of the NLRI buffer read up to p.
UpdateResult(announced, p, withdrawn_routes, attributes) ==
    IF announced.st # "ok" THEN At(announced, p)
    ELSE Ok(p, [withdrawn_routes |-> withdrawn_routes,
                attributes |-> attributes,
                announced_routes |-> announced.val])

\* Update::parse, the NLRI: r5 is the read of the rest of the message.
UpdateNlri(r5, withdrawn_routes, attributes, bld) ==
    IF r5.st # "ok" THEN r5
    ELSE UpdateResult(IpRoutes(r5.val, 0, 32, bld, <<>>), r5.pos,
                      withdrawn_routes, attributes)

\* Update::parse after the attribute loop (attributes) over the buffer that
\* ended at p.
UpdateAnnounced(attributes, b, p, nlri_length, withdrawn_routes, bld) ==
    IF attributes.st # "ok" THEN At(attributes, p)
    ELSE UpdateNlri(CursorRead(b, p, nlri_length, bld.ee), withdrawn_routes,
                    attributes.val, bld)

\* Update::parse, the path attributes: r4 is the attribute section.
UpdateAttributes(r4, b, nlri_length, withdrawn_routes, cp, bld) ==
    IF r4.st # "ok" THEN r4
    ELSE UpdateAnnounced(AttributeLoop(r4.val, 0, cp, bld, <<>>), b, r4.pos,
                         nlri_length - Len(r4.val), withdrawn_routes, bld)

\* Update::parse after the loop over the withdrawn routes (withdrawn) of the
\* section that ended at p.
UpdateWithdrawn(withdrawn, b, p, nlri_length, cp, bld) ==
    IF withdrawn.st # "ok" THEN At(withdrawn, p)
    ELSE UpdateAttributes(Section(b, p, nlri_length, bld), b, nlri_length,
                          withdrawn.val, cp, bld)

\* Update::parse, the withdrawn routes: r2 is the withdrawn section.
UpdateRoutes(r2, b, nlri_length, cp, bld) ==
    IF r2.st # "ok" THEN r2
    ELSE UpdateWithdrawn(IpRoutes(r2.val, 0, 255, bld, <<>>), b, r2.pos,
                         nlri_length - Len(r2.val), cp, bld)

\* Update::parse on a cursor over b at position p, for a header of the given
\* length.
Update_parse(b, p, header_length, cp, bld) ==
    IF HeaderTooShort(header_length) THEN Err("other", p)
    ELSE UpdateRoutes(Section(b, p, header_length - 23, bld), b,
                      header_length - 23, cp, bld)

-----------------------------------------------------------------------------
(* Update::parse applied to the body of an UPDATE message: SpecUpdate.     *)
(* arg is header.length.                                                   *)

MaxWd == 5

MaxAttrs == 3

WdBytes == {0, 1, 8}

U16Bytes(n) == <<n \div 256, n % 256>>

\* The body of an UPDATE with the given three sections.
UpdateBody(wd, attrs, nlri) ==
    U16Bytes(Len(wd)) \o wd \o U16Bytes(Len(attrs)) \o attrs \o nlri

\* Attributes met by the attribute loop: decodable ones, an unknown code,
\* malformed values, bodies too short for their decoder, a Flowspec
\* withdrawal, and two that run past the end of the block.
AttrPool ==
    {<<64, 1, 1, 0>>, <<64, 6, 0>>, <<64, 2, 4, 2, 1, 0, 100>>,
     <<224, 8, 4, 0, 1, 0, 2>>, <<192, 99, 1, 7>>, <<64, 1, 1, 9>>,
     <<128, 4, 2, 0, 0>>, <<64, 2, 1, 2>>, <<192, 20, 1, 0>>,
     <<128, 15, 4, 0, 1, 133, 0>>, <<64, 1, 5, 0>>, <<64>>}

\* The concatenations of at most n attributes of the pool.
RECURSIVE AttrSeqs(_)
AttrSeqs(n) ==
    IF n = 0 THEN {<<>>}
    ELSE {<<>>} \cup {a \o rest : a \in AttrPool, rest \in AttrSeqs(n - 1)}

\* header.length as the sender computes it, one more, and the lengths that
\* leave too little for the header, the withdrawn routes or the attributes.
HeaderLengths(wd, attrs, nlri) ==
    {19 + Len(UpdateBody(wd, attrs, nlri)), 20 + Len(UpdateBody(wd, attrs, nlri)),
     22, 22 + Len(wd), 22 + Len(wd) + Len(attrs)}

InitUpdate ==
    /\ \/ \E wd \in BytesUpTo(WdBytes, MaxWd), attrs \in {<<>>, <<64, 1, 1, 0>>},
             nlri \in {<<>>, <<8, 1>>} :
             /\ stream = UpdateBody(wd, attrs, nlri)
             /\ arg \in HeaderLengths(wd, attrs, nlri)
             /\ caps \in {DefaultCaps, ExtendedCaps}
       \/ \E wd2 \in {<<>>, <<8, 1>>}, attrs2 \in {<<>>, <<64, 1, 1, 0>>},
             nlri2 \in BytesUpTo(WdBytes, MaxWd) :
             /\ stream = UpdateBody(wd2, attrs2, nlri2)
             /\ arg \in HeaderLengths(wd2, attrs2, nlri2)
             /\ caps = DefaultCaps
       \/ \E wd3 \in {<<>>, <<8, 1>>}, attrs3 \in AttrSeqs(MaxAttrs),
             nlri3 \in {<<>>, <<8, 1>>} :
             /\ stream = UpdateBody(wd3, attrs3, nlri3)
             /\ arg \in HeaderLengths(wd3, attrs3, nlri3)
             /\ caps = DefaultCaps
    /\ pos = 0
    /\ overflow_checks = FALSE
    /\ eof_seeks_end = FALSE
    /\ op = "none"
    /\ res = NoRes

ParseUpdate ==
    /\ op = "none"
    /\ op' = "Update::parse"
    /\ res' = Update_parse(stream, pos, arg, caps, Build)
    /\ pos' = res'.pos
    /\ UNCHANGED <<stream, caps, arg, overflow_checks, eof_seeks_end>>

NextUpdate == ParseUpdate

SpecUpdate == InitUpdate /\ [][NextUpdate]_vars

-----------------------------------------------------------------------------
(* open.rs: Open::parse, OpenParameter::parse and OpenCapability::parse.   *)
(* The OPEN body is read from a cursor over the stream; a parameter's      *)
(* capabilities are read from a cursor of their own over its value.        *)

\* Whether the bytes v of a field of kind k convert: AFI::try_from,
\* SAFI::try_from and AddPathDirection::try_from refuse unknown numbers.
FieldValid(k, v) ==
    CASE k = "afi" -> U16(v) \in AFIs
      [] k = "safi" -> v[1] \in SAFIs
      [] k = "dir" -> v[1] \in {1, 2, 3}
      [] OTHER -> TRUE

Field(n, k) == [n |-> n, k |-> k]

\* Successive fields read from the cursor, each converted right after its
\* read; the value is the sequence of their bytes after fields.
RECURSIVE CapFields(_, _, _, _, _)

CapField(r, b, specs, ee, fields) ==
    IF r.st # "ok" THEN r
    ELSE IF ~FieldValid(Head(specs).k, r.val) THEN Err("other", r.pos)
    ELSE CapFields(b, r.pos, Tail(specs), ee, Append(fields, r.val))

CapFields(b, c, specs, ee, fields) ==
    IF specs = <<>> THEN Ok(c, fields)
    ELSE CapField(CursorRead(b, c, Head(specs).n, ee), b, specs, ee, fields)

\* The capability named t made of the fields read.
Capability(r, t) == IF r.st # "ok" THEN r ELSE Ok(r.pos, [t |-> t, v |-> r.val])

\* A capability without decoder keeps its code, its length and its value r.
UnknownCapability(r, cap_code, cap_length) ==
    IF r.st # "ok" THEN r
    ELSE Ok(r.pos, [t |-> "Unknown", cap_code |-> cap_code,
                    cap_length |-> cap_length, v |-> r.val])

\* The entries of OutboundRouteFiltering: as many as the count byte says.
OrfEntries(h, b, ee) ==
    IF h.st # "ok" THEN h
    ELSE CapFields(b, h.pos,
                   Times(h.val[4][1], <<Field(1, "u8"), Field(1, "dir")>>),
                   ee, h.val)

\* The entries of MultipleLabels, read from a cursor over the value r.
LabelEntries(r, cap_length, ee) ==
    IF r.st # "ok" THEN r
    ELSE At(CapFields(r.val, 0,
                      Times(cap_length \div 4,
                            <<Field(2, "afi"), Field(1, "safi"), Field(1, "u8")>>),
                      ee, <<>>),
            r.pos)

\* The capability of the given code and length whose value starts at c.
CapOfCode(cap_code, cap_length, b, c, ee) ==
    CASE cap_code = 1 ->
           IF cap_length # 4 THEN Err("invalid", c)
           ELSE Capability(CapFields(b, c, <<Field(2, "afi"), Field(1, "u8"),
                                             Field(1, "safi")>>, ee, <<>>),
                           "MultiProtocol")
      [] cap_code = 2 ->
           IF cap_length # 0 THEN Err("invalid", c)
           ELSE Ok(c, [t |-> "RouteRefresh", v |-> <<>>])
      [] cap_code = 3 ->
           IF cap_length < 5 \/ (cap_length - 5) % 2 # 0 THEN Err("invalid", c)
           ELSE Capability(
                    OrfEntries(CapFields(b, c, <<Field(2, "afi"), Field(1, "u8"),
                                                 Field(1, "safi"), Field(1, "u8")>>,
                                         ee, <<>>),
                               b, ee),
                    "OutboundRouteFiltering")
      [] cap_code = 8 ->
           IF cap_length % 4 # 0 THEN Err("invalid", c)
           ELSE Capability(LabelEntries(CursorRead(b, c, cap_length, ee),
                                        cap_length, ee),
                           "MultipleLabels")
      [] cap_code = 65 ->
           IF cap_length # 4 THEN Err("invalid", c)
           ELSE Capability(CursorRead(b, c, 4, ee), "FourByteASN")
      [] cap_code = 69 ->
           IF cap_length % 4 # 0 THEN Err("invalid", c)
           ELSE Capability(CapFields(b, c,
                                     Times(cap_length \div 4,
                                           <<Field(2, "afi"), Field(1, "safi"),
                                             Field(1, "dir")>>),
                                     ee, <<>>),
                           "AddPath")
      [] OTHER ->
           UnknownCapability(CursorRead(b, c, cap_length, ee), cap_code, cap_length)

\* The pair (2 + cap_length, capability) OpenCapability::parse returns.
CapValue(r, len) ==
    IF r.st # "ok" THEN r ELSE Ok(r.pos, [len |-> len, cap |-> r.val])

CapBody(h, b, ee) ==
    IF h.st # "ok" THEN h
    ELSE CapValue(CapOfCode(h.val[1][1], h.val[2][1], b, h.pos, ee),
                  2 + h.val[2][1])

OpenCapability_parse(b, c, ee) ==
    CapBody(CapFields(b, c, <<Field(1, "u8"), Field(1, "u8")>>, ee, <<>>), b, ee)

\* The capabilities of a parameter of type 2, read from a cursor over its
\* value b of param_length bytes.
RECURSIVE CapLoop(_, _, _, _, _, _)

CapNext(r, b, param_length, bytes_read, ee, capabilities) ==
    IF r.st # "ok" THEN r
    ELSE CapLoop(b, r.pos, param_length, bytes_read + r.val.len, ee,
                 Append(capabilities, r.val.cap))

CapLoop(b, c, param_length, bytes_read, ee, capabilities) ==
    IF bytes_read < param_length
    THEN CapNext(OpenCapability_parse(b, c, ee), b, param_length, bytes_read,
                 ee, capabilities)
    ELSE IF bytes_read # param_length THEN Err("invalid", c)
    ELSE Ok(c, capabilities)

\* The pair (2 + param_length, parameter) OpenParameter::parse returns, the
\* stream standing at p after the parameter's value.
ParamCaps(inner, p, len) ==
    IF inner.st # "ok" THEN At(inner, p)
    ELSE Ok(p, [len |-> len,
                param |-> [t |-> "Capabilities", v |-> inner.val]])

ParamValue(r, param_type, param_length, ee) ==
    IF r.st # "ok" THEN r
    ELSE IF param_type = 2
    THEN ParamCaps(CapLoop(r.val, 0, param_length, 0, ee, <<>>), r.pos,
                   2 + param_length)
    ELSE Ok(r.pos, [len |-> 2 + param_length,
                    param |-> [t |-> "Unknown", param_type |-> param_type,
                               param_length |-> param_length, v |-> r.val]])

ParamBody(h, b, ee) ==
    IF h.st # "ok" THEN h
    ELSE ParamValue(CursorRead(b, h.pos, h.val[2][1], ee),
                    h.val[1][1], h.val[2][1], ee)

OpenParameter_parse(b, p, ee) ==
    ParamBody(CapFields(b, p, <<Field(1, "u8"), Field(1, "u8")>>, ee, <<>>), b, ee)

\* The check after the parameter loop of Open::parse: the lengths the
\* parameters returned do not add up to the declared length.
OpenLengthMismatch_Never(length) == FALSE

OpenLengthMismatch(length) == length # 0

\* The parameter loop of Open::parse; length is what is left of the declared
\* length and becomes negative when the last parameter overshoots it.
RECURSIVE OpenLoop(_, _, _, _, _)

OpenNext(r, b, length, ee, parameters) ==
    IF r.st # "ok" THEN r
    ELSE OpenLoop(b, r.pos, length - r.val.len, ee,
                  Append(parameters, r.val.param))

OpenLoop(b, p, length, ee, parameters) ==
    IF length > 0
    THEN OpenNext(OpenParameter_parse(b, p, ee), b, length, ee, parameters)
    ELSE IF OpenLengthMismatch(length) THEN Err("invalid", p)
    ELSE Ok(p, parameters)

OpenResult(r, h) ==
    IF r.st # "ok" THEN r
    ELSE Ok(r.pos, [version |-> h[1][1], peer_asn |-> U16(h[2]),
                    hold_timer |-> U16(h[3]), identifier |-> h[4],
                    parameters |-> r.val])

OpenParameters(h, b, ee) ==
    IF h.st # "ok" THEN h
    ELSE OpenResult(OpenLoop(b, h.pos, h.val[5][1], ee, <<>>), h.val)

\* Open::parse on a cursor over b at position p.
Open_parse(b, p, ee) ==
    OpenParameters(CapFields(b, p, <<Field(1, "u8"), Field(2, "u16"), Field(2, "u16"),
                                     Field(4, "u32"), Field(1, "u8")>>, ee, <<>>),
                   b, ee)

-----------------------------------------------------------------------------
(* Open::parse applied to OPEN bodies: a fixed version, ASN, hold time and *)
(* identifier, a declared parameter length and the parameter bytes.        *)

\* The most parameter bytes of the enumerated bodies.
MaxOpen == 5

OpenBytes == {0, 1, 2, 3}

OpenFixed == <<4, 253, 232, 0, 60, 1, 1, 1, 1>>

\* Parameters holding each capability once, the last two malformed: a
\* parameter shorter than its capability and an unknown AFI.
OpenSamples ==
    { <<2, 6, 1, 4, 0, 2, 0, 1>>,
      <<2, 6, 65, 4, 0, 0, 253, 232>>,
      <<2, 2, 2, 0>>,
      <<2, 9, 3, 7, 0, 1, 0, 1, 1, 64, 3>>,
      <<2, 6, 8, 4, 0, 1, 4, 2>>,
      <<2, 6, 69, 4, 0, 1, 1, 3>>,
      <<2, 4, 240, 2, 7, 7>>,
      <<2, 6, 1, 4, 0, 2, 0, 1, 2, 6, 65, 4, 0, 0, 253, 232, 2, 2, 2, 0>>,
      <<2, 7, 3, 5, 0, 1, 0, 1, 1, 64, 3>>,
      <<2, 6, 1, 4, 0, 9, 0, 1>> }

InitOpen ==
    /\ \/ \E params \in BytesUpTo(OpenBytes, MaxOpen) :
            \E declared \in 0..(MaxOpen + 1) :
                stream = OpenFixed \o <<declared>> \o params
       \/ \E params \in OpenSamples :
            \E declared \in {Len(params) - 2, Len(params), Len(params) + 1, 40} :
                stream = OpenFixed \o <<declared>> \o params
       \/ \E n \in 0..9 : stream = SubSeq(OpenFixed, 1, n)
    /\ eof_seeks_end \in BOOLEAN
    /\ overflow_checks = FALSE
    /\ caps = DefaultCaps
    /\ pos = 0
    /\ arg = 0
    /\ op = "none"
    /\ res = NoRes

OpenParse ==
    /\ op = "none"
    /\ op' = "Open::parse"
    /\ res' = Open_parse(stream, pos, eof_seeks_end)
    /\ pos' = res'.pos
    /\ UNCHANGED <<stream, caps, arg, overflow_checks, eof_seeks_end>>

NextOpen == OpenParse

SpecOpen == InitOpen /\ [][NextOpen]_vars

-----------------------------------------------------------------------------
(* lib.rs: Reader::read with the parsers it dispatches to.  The reader's   *)
(* stream is a cursor over the bytes of one message.                       *)

\* Notification::parse: the two error codes, then header.length - 21 data
\* bytes when the header announces any.
NotificationResult(r, codes) ==
    IF r.st # "ok" THEN r
    ELSE Ok(r.pos, [major_err_code |-> codes[1][1],
                    minor_err_code |-> codes[2][1], data |-> r.val])

NotificationData(h, b, header_length, ee) ==
    IF h.st # "ok" THEN h
    ELSE NotificationResult(
             IF header_length > 21
             THEN CursorRead(b, h.pos, header_length - 21, ee)
             ELSE Ok(h.pos, <<>>),
             h.val)

Notification_parse(b, p, header_length, ee) ==
    NotificationData(CapFields(b, p, <<Field(1, "u8"), Field(1, "u8")>>, ee, <<>>),
                     b, header_length, ee)

\* RouteRefresh::parse: AFI, a reserved byte and SAFI.
RouteRefresh_parse(b, p, ee) ==
    CapFields(b, p, <<Field(2, "afi"), Field(1, "u8"), Field(1, "safi")>>, ee, <<>>)

\* The pair (header, message) of a parsed body.
MessageOf(r, header, t) ==
    IF r.st # "ok" THEN r
    ELSE Ok(r.pos, [header |-> header, message |-> [t |-> t, v |-> r.val]])

\* The dispatch of Reader::read on header.record_type, the stream standing
\* at p after the header.
Dispatch(header, b, p, cp, bld) ==
    CASE header.record_type = 1 ->
           MessageOf(Open_parse(b, p, bld.ee), header, "Open")
      [] header.record_type = 2 ->
           MessageOf(Update_parse(b, p, header.length, cp, bld), header, "Update")
      [] header.record_type = 3 ->
           MessageOf(Notification_parse(b, p, header.length, bld.ee), header,
                     "Notification")
      [] header.record_type = 4 ->
           MessageOf(Ok(p, <<>>), header, "KeepAlive")
      [] header.record_type = 5 ->
           MessageOf(RouteRefresh_parse(b, p, bld.ee), header, "RouteRefresh")
      [] OTHER -> Err("other", p)

ReadBody(h, b, cp, bld) ==
    IF h.st # "ok" THEN h
    ELSE Dispatch([marker |-> h.val[1], length |-> U16(h.val[2]),
                   record_type |-> h.val[3][1]],
                  b, h.pos, cp, bld)

\* Reader::read on a cursor over b at position 0.
Reader_read(b, cp, bld) ==
    ReadBody(CapFields(b, 0, <<Field(16, "marker"), Field(2, "u16"),
                               Field(1, "u8")>>, bld.ee, <<>>),
             b, cp, bld)

-----------------------------------------------------------------------------
(* Reader::read applied to one message: a header and a body of each type,  *)
(* under each capability set and each build.                               *)

\* The most bytes of the enumerated bodies.
MaxMsg == 4

MsgBytes == {0, 1, 2}

Marker == [i \in 1..16 |-> 255]

\* The message with the given header.length, type and body.
Wire(length, record_type, body) ==
    Marker \o U16Bytes(length) \o <<record_type>> \o body

InitRead ==
    /\ \/ \E body \in BytesUpTo(MsgBytes, MaxMsg), record_type \in 0..6 :
            \E length \in {19 + Len(body), 21, 23} :
                stream = Wire(length, record_type, body)
       \/ \E attrs \in AttrSeqs(2), nlri \in {<<>>, <<8, 1>>} :
            stream = Wire(19 + Len(UpdateBody(<<>>, attrs, nlri)), 2,
                          UpdateBody(<<>>, attrs, nlri))
       \/ \E a \in SampleAttrs \cup {LongNextHopAttr} :
            stream = Wire(23 + Len(a), 2, UpdateBody(<<>>, a, <<>>))
       \/ \E params \in OpenSamples :
            stream = Wire(29 + Len(params), 1,
                          OpenFixed \o <<Len(params)>> \o params)
       \/ \E n \in 0..18 : stream = SubSeq(Wire(19, 4, <<>>), 1, n)
    /\ caps \in {DefaultCaps, ExtendedCaps}
    /\ overflow_checks \in BOOLEAN
    /\ eof_seeks_end \in BOOLEAN
    /\ pos = 0
    /\ arg = 0
    /\ op = "none"
    /\ res = NoRes

Read ==
    /\ op = "none"
    /\ op' = "Reader::read"
    /\ res' = Reader_read(stream, caps, Build)
    /\ pos' = res'.pos
    /\ UNCHANGED <<stream, caps, arg, overflow_checks, eof_seeks_end>>

NextRead == Read

SpecRead == InitRead /\ [][NextRead]_vars

-----------------------------------------------------------------------------
(* The encoders: PathAttribute::encode, ASPath::encode and                 *)
(* NLRIEncoding::encode with Update::encode, the encoders of open.rs and   *)
(* Notification::encode.  An encoder returns the bytes it wrote.           *)

Written(bytes) == Ok(Len(bytes), bytes)

\* The concatenation of the byte sequences of s.
RECURSIVE Flat(_)
Flat(s) ==
    IF Len(s) = 0 THEN <<>>
    ELSE IF Len(s) = 1 THEN s[1]
    ELSE Flat(SubSeq(s, 1, Len(s) \div 2))
         \o Flat(SubSeq(s, Len(s) \div 2 + 1, Len(s)))

\* ASPath::has_4_byte_asns: some ASN of some segment is above u16::MAX.
has_4_byte_asns(segments) ==
    \E i \in 1..Len(segments) :
        \E k \in 1..Len(segments[i].asns) :
            segments[i].asns[k][1] # 0 \/ segments[i].asns[k][2] # 0

\* One segment of ASPath::encode: type, count and the ASNs in 4 bytes each
\* when the path has a 4-byte ASN, in 2 bytes each otherwise.
SegmentBytes(segment, is_4_byte_aspath) ==
    <<segment.type, Len(segment.asns) % 256>>
    \o Flat([k \in 1..Len(segment.asns) |->
                IF is_4_byte_aspath THEN segment.asns[k]
                ELSE SubSeq(segment.asns[k], 3, 4)])

ASPath_encode(segments) ==
    Flat([i \in 1..Len(segments) |->
             SegmentBytes(segments[i], has_4_byte_asns(segments))])

\* The attributes PathAttribute::encode has an arm for, MP_REACH_NLRI and
\* MP_UNREACH_NLRI apart, and the flags it writes for each.
EncodedIds == {1, 2, 3, 4, 5, 7, 8, 9, 10, 16, 17}

AttributeFlags(id) ==
    CASE id \in {1, 2, 3, 5} -> 64
      [] id \in {4, 9, 10} -> 128
      [] id \in {7, 8, 16, 17} -> 192

\* The body PathAttribute::encode writes for the attribute a.
AttributeBytes(a) ==
    CASE a.id = 1 -> a.v
      [] a.id \in {2, 17} -> ASPath_encode(a.v)
      [] a.id = 7 -> SubSeq(a.v[1], 3, 4) \o a.v[2]
      [] OTHER -> Flat(a.v)

\* Flags, type, length and body: the length takes two bytes when the body
\* is longer than 255 bytes or the flags ask for it.
AttributeWire(flags, id, bytes) ==
    IF Len(bytes) > 255 \/ (flags \div 16) % 2 = 1
    THEN <<flags + (IF (flags \div 16) % 2 = 1 THEN 0 ELSE 16), id>>
         \o U16Bytes(Len(bytes) % 65536) \o bytes
    ELSE <<flags, id, Len(bytes)>> \o bytes

\* PathAttribute::encode; an attribute without an arm ends in unimplemented!.
PathAttribute_encode(a) ==
    IF a.id \in EncodedIds
    THEN Written(AttributeWire(AttributeFlags(a.id), a.id, AttributeBytes(a)))
    ELSE Panic(0)

\* Prefix::octet_length.
octet_length_Floor(prefix) == prefix.length \div 8

octet_length(prefix) == (prefix.length + 7) \div 8

\* Prefix::masked_octets: the slice of the octets the length covers, taken
\* from a vector that holds at least as many.
masked_octets_Whole(prefix) == prefix.prefix

masked_octets(prefix) == SubSeq(prefix.prefix, 1, octet_length(prefix))

\* NLRIEncoding::encode for the routes of the UPDATE body; the slice of
\* masked_octets panics on a vector shorter than octet_length.
NLRIEncoding_encode(route) ==
    IF Len(route.prefix.prefix) < octet_length(route.prefix) THEN Panic(0)
    ELSE CASE route.t = "IP" ->
                Written(<<route.prefix.length>> \o masked_octets(route.prefix))
           [] route.t = "IP_WITH_PATH_ID" ->
                Written(route.path_id \o <<route.prefix.length>>
                        \o masked_octets(route.prefix))

\* A withdrawn route in Update::encode: a plain IPv4 prefix is encoded;
\* the routes of the UPDATE body being IPv4, any other is a route with a
\* path identifier, for which NLRIEncoding::afi is unimplemented!.
Withdrawal_encode(route) ==
    IF route.t = "IP" /\ route.prefix.protocol = 1
    THEN NLRIEncoding_encode(route)
    ELSE Panic(0)

\* OpenCapability::encode.  A set of entries is written in the order of
\* iteration of the set, which is the order read when it holds one entry.
OpenCapability_encode(c) ==
    CASE c.t = "MultiProtocol" -> Written(<<1, 4>> \o c.v[1] \o <<0>> \o c.v[3])
      [] c.t = "RouteRefresh" -> Written(<<2, 0>>)
      [] c.t = "OutboundRouteFiltering" ->
           Written(<<3, (5 + ((Len(c.v) - 4) \div 2) * 2) % 256>>
                   \o (IF Len(c.v) > 4
                       THEN c.v[1] \o <<0>> \o c.v[3] \o <<(Len(c.v) - 4) \div 2>>
                       ELSE <<>>)
                   \o Flat(SubSeq(c.v, 5, Len(c.v))))
      [] c.t = "MultipleLabels" -> Written(Flat(c.v))
      [] c.t = "FourByteASN" -> Written(<<65, 4>> \o c.v)
      [] c.t = "AddPath" ->
           IF (Len(c.v) \div 3) * 4 > 255 THEN Err("other", 0)
           ELSE Written(<<69, (Len(c.v) \div 3) * 4>> \o Flat(c.v))
      [] c.t = "Unknown" -> Written(<<c.cap_code, c.cap_length>> \o c.v)

RECURSIVE EncodeAll(_, _, _)

\* OpenParameter::encode.
CapabilitiesParameter(r) ==
    IF r.st # "ok" THEN r
    ELSE IF Len(r.val) > 255 THEN Err("other", 0)
    ELSE Written(<<2, Len(r.val)>> \o r.val)

OpenParameter_encode(p) ==
    IF p.t = "Capabilities"
    THEN CapabilitiesParameter(EncodeAll(p.v, "capability", <<>>))
    ELSE Written(<<p.param_type, p.param_length>> \o p.v)

\* OpenCapability::write of lib.rs: the arms write what the arms of
\* OpenCapability::encode write, but for the outbound route filters, which
\* come without code and length.
OpenCapability_write(c) ==
    IF c.t = "OutboundRouteFiltering"
    THEN Written((IF Len(c.v) > 4
                  THEN c.v[1] \o <<0>> \o c.v[3] \o <<((Len(c.v) - 4) \div 2) % 256>>
                  ELSE <<>>)
                 \o Flat(SubSeq(c.v, 5, Len(c.v))))
    ELSE OpenCapability_encode(c)

\* OpenParameter::write of lib.rs.
CapabilitiesWritten(r) ==
    IF r.st # "ok" THEN r
    ELSE IF Len(r.val) > 255 THEN Err("other", 0)
    ELSE Written(<<2, Len(r.val)>> \o r.val)

OpenParameter_write(p) ==
    IF p.t = "Capabilities"
    THEN CapabilitiesWritten(EncodeAll(p.v, "capability written", <<>>))
    ELSE Written(<<p.param_type, p.param_length>> \o p.v)

\* The encoder of one item of the given kind.
EncodeOne(kind, x) ==
    CASE kind = "attribute" -> PathAttribute_encode(x)
      [] kind = "route" -> NLRIEncoding_encode(x)
      [] kind = "withdrawal" -> Withdrawal_encode(x)
      [] kind = "capability" -> OpenCapability_encode(x)
      [] kind = "parameter" -> OpenParameter_encode(x)
      [] kind = "capability written" -> OpenCapability_write(x)
      [] kind = "parameter written" -> OpenParameter_write(x)

\* The items encoded one after the other into the buffer buf; the first
\* failure ends the loop.
EncodeNext(r, items, kind, buf) ==
    IF r.st # "ok" THEN r
    ELSE EncodeAll(Tail(items), kind, buf \o r.val)

EncodeAll(items, kind, buf) ==
    IF items = <<>> THEN Written(buf)
    ELSE EncodeNext(EncodeOne(kind, Head(items)), items, kind, buf)

\* Update::encode: the withdrawn routes and their length, the attributes
\* and their length, the announced routes.
UpdateEnd(n, buf) == IF n.st # "ok" THEN n ELSE Written(buf \o n.val)

UpdateNlriEncoded(a, buf, u) ==
    IF a.st # "ok" THEN a
    ELSE UpdateEnd(EncodeAll(u.announced_routes, "route", <<>>),
                   buf \o U16Bytes(Len(a.val) % 65536) \o a.val)

UpdateAttributesEncoded(w, u) ==
    IF w.st # "ok" THEN w
    ELSE UpdateNlriEncoded(EncodeAll(u.attributes, "attribute", <<>>),
                           U16Bytes(Len(w.val) % 65536) \o w.val, u)

Update_encode(u) ==
    UpdateAttributesEncoded(EncodeAll(u.withdrawn_routes, "withdrawal", <<>>), u)

\* Open::encode.  The version, the ASN, the hold timer and the identifier
\* are written to the buffer before the parameters are encoded aside; a
\* failure returns with these bytes in the buffer, which is the value of
\* the error here.
OpenFixedFields(o) ==
    <<o.version>> \o U16Bytes(o.peer_asn) \o U16Bytes(o.hold_timer) \o o.identifier

OpenFailed(kind, o) == [Err(kind, 9) EXCEPT !.val = OpenFixedFields(o)]

OpenEncoded(r, o) ==
    IF r.st # "ok" THEN OpenFailed(r.kind, o)
    ELSE IF Len(r.val) > 255 THEN OpenFailed("other", o)
    ELSE Written(OpenFixedFields(o) \o <<Len(r.val)>> \o r.val)

Open_encode(o) == OpenEncoded(EncodeAll(o.parameters, "parameter", <<>>), o)

\* Open::write of lib.rs, into the writer that counts the bytes and into
\* the stream: the same bytes, or the same error.
OpenWritten(r, o) ==
    IF r.st # "ok" THEN r
    ELSE IF Len(r.val) > 255 THEN Err("other", 0)
    ELSE Written(OpenFixedFields(o) \o <<Len(r.val)>> \o r.val)

Open_write(o) == OpenWritten(EncodeAll(o.parameters, "parameter written", <<>>), o)

\* Message::write_noheader: OPEN and KEEPALIVE are written, the other
\* messages are not implemented.
Message_write_noheader(m) ==
    CASE m.t = "Open" -> Open_write(m.v)
      [] m.t = "KeepAlive" -> Written(<<>>)
      [] OTHER -> Panic(0)

\* The type code of the header.
RecordType(m) ==
    CASE m.t = "Open" -> 1
      [] m.t = "Update" -> 2
      [] m.t = "Notification" -> 3
      [] m.t = "KeepAlive" -> 4
      [] m.t = "RouteRefresh" -> 5

\* Message::write: the body is written to a counting writer first; its
\* failure, or a length above what a u16 holds, returns before anything is
\* written to the stream.
Headed(r, m) ==
    IF r.st # "ok" THEN r
    ELSE IF Len(r.val) + 16 + 2 + 1 > 65535 THEN Err("other", 0)
    ELSE Written(Marker \o U16Bytes(Len(r.val) + 16 + 2 + 1) \o <<RecordType(m)>> \o r.val)

Message_write(m) == Headed(Message_write_noheader(m), m)

\* Notification::encode.
Notification_encode(n) ==
    Written(<<n.major_err_code, n.minor_err_code>> \o n.data)

\* Message::encode: the header with the all-ones marker, the length of the
\* body plus 19 and the type, before the body; a message above 4096 bytes
\* is refused.
Framed(r, record_type) ==
    IF r.st # "ok" THEN r
    ELSE IF Len(r.val) + 19 > 4096 THEN Err("other", 0)
    ELSE Written(Marker \o U16Bytes(Len(r.val) + 19) \o <<record_type>> \o r.val)

Message_encode(m) ==
    CASE m.t = "Open" -> Framed(Open_encode(m.v), 1)
      [] m.t = "Update" -> Framed(Update_encode(m.v), 2)
      [] m.t = "Notification" -> Framed(Notification_encode(m.v), 3)
      [] m.t = "KeepAlive" -> Framed(Written(<<>>), 4)

-----------------------------------------------------------------------------
(* A message read by Reader::read with default capabilities and encoded    *)
(* again.  The messages are well formed: OPEN, NOTIFICATION, KEEPALIVE and *)
(* UPDATE with IPv4 routes and attributes other than MP_REACH_NLRI and     *)
(* MP_UNREACH_NLRI.                                                        *)

\* The most attributes of an enumerated UPDATE.
MaxRt == 2

\* Well-formed attributes: ORIGIN, AS_PATH with 2-byte and with 4-byte
\* ASNs, NEXT_HOP, MULTI_EXIT_DISC, LOCAL_PREF, ATOMIC_AGGREGATE,
\* AGGREGATOR, COMMUNITY (also with the partial bit), ORIGINATOR_ID,
\* CLUSTER_LIST, EXTENDED_COMMUNITIES and one of an unknown type.
RtAttrPool ==
    {<<64, 1, 1, 0>>, <<64, 2, 4, 2, 1, 0, 100>>, <<64, 2, 6, 2, 1, 0, 1, 0, 0>>,
     <<64, 3, 4, 10, 0, 0, 1>>, <<128, 4, 4, 0, 0, 0, 1>>, <<64, 5, 4, 0, 0, 0, 100>>,
     <<64, 6, 0>>, <<192, 7, 6, 0, 100, 10, 0, 0, 1>>, <<192, 8, 4, 0, 1, 0, 2>>,
     <<224, 8, 4, 0, 1, 0, 2>>, <<128, 9, 4, 10, 0, 0, 1>>, <<128, 10, 4, 10, 0, 0, 2>>,
     <<192, 16, 8, 0, 2, 0, 100, 0, 0, 0, 1>>, <<192, 99, 1, 7>>}

RECURSIVE RtAttrSeqs(_)
RtAttrSeqs(n) ==
    IF n = 0 THEN {<<>>}
    ELSE {<<>>} \cup {a \o rest : a \in RtAttrPool, rest \in RtAttrSeqs(n - 1)}

RtRoutes == {<<>>, <<8, 1>>, <<24, 10, 0, 1>>, <<8, 1, 16, 10, 1>>}

\* The well-formed parameters of OpenSamples.
RtOpenParams ==
    {<<>>} \cup {params \in OpenSamples :
                     Open_parse(OpenFixed \o <<Len(params)>> \o params, 0, FALSE).st = "ok"}

InitRoundTrip ==
    /\ \/ stream = Wire(19, 4, <<>>)
       \/ \E major \in 1..6, minor \in 0..2, data \in BytesUpTo({0, 7}, 2) :
            stream = Wire(21 + Len(data), 3, <<major, minor>> \o data)
       \/ \E params \in RtOpenParams :
            stream = Wire(29 + Len(params), 1,
                          OpenFixed \o <<Len(params)>> \o params)
       \/ \E wd \in RtRoutes, attrs \in RtAttrSeqs(MaxRt), nlri \in RtRoutes :
            stream = Wire(19 + Len(UpdateBody(wd, attrs, nlri)), 2,
                          UpdateBody(wd, attrs, nlri))
    /\ caps = DefaultCaps
    /\ overflow_checks \in BOOLEAN
    /\ eof_seeks_end = FALSE
    /\ pos = 0
    /\ arg = 0
    /\ op = "none"
    /\ res = NoRes

Encode ==
    /\ op = "Reader::read"
    /\ res.st = "ok"
    /\ op' = "Message::encode"
    /\ res' = Message_encode(res.val.message)
    /\ UNCHANGED <<stream, pos, caps, arg, overflow_checks, eof_seeks_end>>

NextRoundTrip == Read \/ Encode

SpecRoundTrip == InitRoundTrip /\ [][NextRoundTrip]_vars

-----------------------------------------------------------------------------
(* A path attribute value encoded, parsed back and encoded again, as       *)
(* _attr_roundtrip does.  arg is the attribute, stream its encoding, pos   *)
(* the cursor after the parse.                                             *)

\* The most ASNs of an enumerated segment and the most segments of a path.
MaxAsns == 2

MaxSegments == 2

\* ASNs as u32: 100, 0x0201, 65536 and 0x02010000.
RtAsns == {<<0, 0, 0, 100>>, <<0, 0, 2, 1>>, <<0, 1, 0, 0>>, <<2, 1, 0, 0>>}

RtSegments ==
    {[type |-> t, asns |-> s] : t \in {1, 2}, s \in BytesUpTo(RtAsns, MaxAsns)}

RtCommunities == {<<0, 1, 0, 2>>, <<255, 255, 255, 1>>}

\* A segment of 256 ASNs, and one of 64 ASNs above u16::MAX, whose body
\* takes 258 bytes.
LongSegment == [type |-> 2, asns |-> [k \in 1..256 |-> <<0, 0, 0, 100>>]]

WideSegment == [type |-> 2, asns |-> [k \in 1..64 |-> <<0, 1, 0, 0>>]]

\* Attributes of every kind PathAttribute::encode has a body encoder for:
\* ORIGIN; AS_PATH and AS4_PATH; the kinds whose value is a run of integers.
RtOrigins == {Attr(1, <<o>>) : o \in {0, 1, 2}}

\* Paths of at most MaxSegments segments, the segments after the first
\* holding at most one ASN.
RtPathValues ==
    {<<>>} \cup {<<first>> \o rest :
                    first \in RtSegments,
                    rest \in BytesUpTo({g \in RtSegments : Len(g.asns) <= 1},
                                       MaxSegments - 1)}

RtPaths ==
    {Attr(id, s) : id \in {2, 17}, s \in RtPathValues}
    \cup {Attr(2, <<LongSegment>>), Attr(2, <<WideSegment>>)}

RtIntegers ==
    {Attr(3, <<<<10, 0, 0, 1>>>>), Attr(3, <<[k \in 1..16 |-> k]>>)}
    \cup {Attr(id, <<<<0, 0, 1, 244>>>>) : id \in {4, 5, 9}}
    \cup {Attr(7, <<n, <<1, 1, 1, 1>>>>) : n \in RtAsns}
    \cup {Attr(id, s) : id \in {8, 10}, s \in BytesUpTo(RtCommunities, 2)}
    \cup {Attr(16, s) : s \in BytesUpTo({<<0, 2, 0, 100, 0, 0, 0, 1>>}, 2)}

InitAttrRoundTrip ==
    /\ \/ arg \in RtOrigins
       \/ arg \in RtPaths
       \/ arg \in RtIntegers
    /\ stream = <<>>
    /\ caps = DefaultCaps
    /\ overflow_checks \in BOOLEAN
    /\ eof_seeks_end = FALSE
    /\ pos = 0
    /\ op = "none"
    /\ res = NoRes

EncodeAttribute ==
    /\ op = "none"
    /\ PathAttribute_encode(arg).st = "ok"
    /\ op' = "PathAttribute::encode"
    /\ stream' = PathAttribute_encode(arg).val
    /\ UNCHANGED <<pos, caps, arg, overflow_checks, eof_seeks_end, res>>

ParseEncoded ==
    /\ op = "PathAttribute::encode"
    /\ op' = "PathAttribute::parse"
    /\ res' = PathAttribute_parse(stream, 0, caps, Build)
    /\ pos' = res'.pos
    /\ UNCHANGED <<stream, caps, arg, overflow_checks, eof_seeks_end>>

EncodeParsed ==
    /\ op = "PathAttribute::parse"
    /\ res.st = "ok"
    /\ op' = "PathAttribute::encode again"
    /\ res' = PathAttribute_encode(res.val)
    /\ UNCHANGED <<stream, pos, caps, arg, overflow_checks, eof_seeks_end>>

NextAttrRoundTrip == EncodeAttribute \/ ParseEncoded \/ EncodeParsed

SpecAttrRoundTrip == InitAttrRoundTrip /\ [][NextAttrRoundTrip]_vars

-----------------------------------------------------------------------------
(* open.rs, _param_roundtrip: a parameter is encoded and the bytes are     *)
(* parsed back.  A HashSet of entries is held as the sequence of its       *)
(* entries in the order of iteration, without repetition.                  *)

MaxCaps == 2

\* Capabilities of every kind: sets of entries that are empty, hold one
\* entry or hold two, in both orders of iteration.
RtCapabilities ==
    << [t |-> "MultiProtocol", v |-> <<<<0, 1>>, <<0>>, <<1>>>>],
       [t |-> "MultiProtocol", v |-> <<<<0, 2>>, <<0>>, <<1>>>>],
       [t |-> "RouteRefresh", v |-> <<>>],
       [t |-> "OutboundRouteFiltering",
        v |-> <<<<0, 1>>, <<0>>, <<1>>, <<1>>, <<10>>, <<2>>>>],
       [t |-> "OutboundRouteFiltering",
        v |-> <<<<0, 2>>, <<0>>, <<1>>, <<2>>, <<20>>, <<3>>, <<10>>, <<1>>>>],
       [t |-> "OutboundRouteFiltering", v |-> <<<<0, 1>>, <<0>>, <<1>>, <<0>>>>],
       [t |-> "MultipleLabels", v |-> <<>>],
       [t |-> "MultipleLabels", v |-> <<<<0, 1>>, <<4>>, <<2>>>>],
       [t |-> "MultipleLabels", v |-> <<<<0, 2>>, <<4>>, <<0>>>>],
       [t |-> "FourByteASN", v |-> <<0, 0, 253, 232>>],
       [t |-> "FourByteASN", v |-> <<190, 188, 32, 1>>],
       [t |-> "AddPath", v |-> <<>>],
       [t |-> "AddPath", v |-> <<<<0, 1>>, <<1>>, <<2>>>>],
       [t |-> "AddPath", v |-> <<<<0, 1>>, <<1>>, <<2>>, <<0, 2>>, <<1>>, <<1>>>>],
       [t |-> "AddPath", v |-> <<<<0, 2>>, <<1>>, <<1>>, <<0, 1>>, <<1>>, <<2>>>>],
       [t |-> "Unknown", cap_code |-> 70, cap_length |-> 0, v |-> <<>>],
       [t |-> "Unknown", cap_code |-> 70, cap_length |-> 2, v |-> <<7, 7>>] >>

\* The parameter holding the capabilities of the given indices.
CapabilitiesOf(idx) ==
    [t |-> "Capabilities", v |-> [k \in 1..Len(idx) |-> RtCapabilities[idx[k]]]]

UnknownParameter(v) ==
    [t |-> "Unknown", param_type |-> 90, param_length |-> Len(v), v |-> v]

\* The entries a capability holds: PartialEq compares the sets, not the
\* order of iteration, and a MultiProtocol holds no reserved byte.
CapabilityEntries(c) ==
    CASE c.t = "MultiProtocol" -> {<<c.v[1], c.v[3]>>}
      [] c.t = "OutboundRouteFiltering" ->
           {<<c.v[1], c.v[3], c.v[3 + 2 * k], c.v[4 + 2 * k]>> :
                k \in 1..((Len(c.v) - 4) \div 2)}
      [] c.t \in {"MultipleLabels", "AddPath"} ->
           {SubSeq(c.v, 3 * k - 2, 3 * k) : k \in 1..(Len(c.v) \div 3)}
      [] c.t = "FourByteASN" -> {<<c.v>>}
      [] c.t = "Unknown" -> {<<<<c.cap_code>>, <<c.cap_length>>, c.v>>}
      [] OTHER -> {}

SameCapability(c, d) == c.t = d.t /\ CapabilityEntries(c) = CapabilityEntries(d)

SameParameter(p, q) ==
    /\ p.t = q.t
    /\ IF p.t = "Capabilities"
       THEN /\ Len(p.v) = Len(q.v)
            /\ \A k \in 1..Len(p.v) : SameCapability(p.v[k], q.v[k])
       ELSE p = q

InitParamRoundTrip ==
    /\ \/ \E idx \in BytesUpTo(1..Len(RtCapabilities), MaxCaps) :
            arg = CapabilitiesOf(idx)
       \/ \E v \in {<<>>, <<0, 1, 2, 3>>} : arg = UnknownParameter(v)
    /\ stream = <<>>
    /\ caps = DefaultCaps
    /\ overflow_checks = TRUE
    /\ eof_seeks_end \in BOOLEAN
    /\ pos = 0
    /\ op = "none"
    /\ res = NoRes

EncodeParameter ==
    /\ op = "none"
    /\ res' = OpenParameter_encode(arg)
    /\ stream' = IF res'.st = "ok" THEN res'.val ELSE <<>>
    /\ op' = "OpenParameter::encode"
    /\ UNCHANGED <<pos, caps, arg, overflow_checks, eof_seeks_end>>

ParseParameter ==
    /\ op = "OpenParameter::encode"
    /\ res.st = "ok"
    /\ res' = OpenParameter_parse(stream, 0, eof_seeks_end)
    /\ pos' = res'.pos
    /\ op' = "OpenParameter::parse"
    /\ UNCHANGED <<stream, caps, arg, overflow_checks, eof_seeks_end>>

NextParamRoundTrip == EncodeParameter \/ ParseParameter

SpecParamRoundTrip == InitParamRoundTrip /\ [][NextParamRoundTrip]_vars

-----------------------------------------------------------------------------
(* open.rs, Capabilities::from_parameters, and lib.rs,                     *)
(* Capabilities::common.  A HashMap is a function on its keys; the fields  *)
(* of a descriptor are public, so a caller may also set them directly.     *)

Capabilities_default ==
    [MP_BGP_SUPPORT |-> {},
     ROUTE_REFRESH_SUPPORT |-> FALSE,
     OUTBOUND_ROUTE_FILTERING_SUPPORT |-> {},
     EXTENDED_NEXT_HOP_ENCODING |-> <<>>,
     BGPSEC_SUPPORT |-> FALSE,
     MULTIPLE_LABELS_SUPPORT |-> <<>>,
     GRACEFUL_RESTART_SUPPORT |-> {},
     FOUR_OCTET_ASN_SUPPORT |-> FALSE,
     ADD_PATH_SUPPORT |-> <<>>,
     EXTENDED_PATH_NLRI_SUPPORT |-> FALSE,
     ENHANCED_ROUTE_REFRESH_SUPPORT |-> FALSE,
     LONG_LIVED_GRACEFUL_RESTART |-> FALSE]

\* HashMap::insert: the value of an existing key is replaced.
Insert(m, key, val) ==
    [k \in DOMAIN m \cup {key} |-> IF k = key THEN val ELSE m[k]]

\* The (AFI, SAFI, value) entries of a capability inserted one after the
\* other, in the order of iteration.
RECURSIVE InsertAll(_, _)
InsertAll(m, fields) ==
    IF fields = <<>> THEN m
    ELSE InsertAll(Insert(m, <<fields[1], fields[2]>>, fields[3]),
                   SubSeq(fields, 4, Len(fields)))

\* One arm of the match of from_parameters.
FoldCapability(capabilities, capability) ==
    CASE capability.t = "MultiProtocol" ->
           [capabilities EXCEPT !.MP_BGP_SUPPORT = @ \cup CapabilityEntries(capability)]
      [] capability.t = "RouteRefresh" ->
           [capabilities EXCEPT !.ROUTE_REFRESH_SUPPORT = TRUE]
      [] capability.t = "OutboundRouteFiltering" ->
           [capabilities EXCEPT
              !.OUTBOUND_ROUTE_FILTERING_SUPPORT = CapabilityEntries(capability)]
      [] capability.t = "MultipleLabels" ->
           [capabilities EXCEPT
              !.MULTIPLE_LABELS_SUPPORT = InsertAll(@, capability.v)]
      [] capability.t = "FourByteASN" ->
           [capabilities EXCEPT !.FOUR_OCTET_ASN_SUPPORT = TRUE]
      [] capability.t = "AddPath" ->
           [capabilities EXCEPT !.EXTENDED_PATH_NLRI_SUPPORT = TRUE,
                                !.ADD_PATH_SUPPORT = InsertAll(@, capability.v)]
      [] OTHER -> capabilities

RECURSIVE FoldCapabilities(_, _)
FoldCapabilities(capabilities, list) ==
    IF list = <<>> THEN capabilities
    ELSE FoldCapabilities(FoldCapability(capabilities, Head(list)), Tail(list))

RECURSIVE FoldParameters(_, _)
FoldParameters(capabilities, parameters) ==
    IF parameters = <<>> THEN capabilities
    ELSE FoldParameters(IF Head(parameters).t = "Capabilities"
                        THEN FoldCapabilities(capabilities, Head(parameters).v)
                        ELSE capabilities,
                        Tail(parameters))

from_parameters(parameters) == FoldParameters(Capabilities_default, parameters)

\* The entries of the map m whose key is also a key of the map n.
CommonKeys(m, n) == [k \in DOMAIN m \cap DOMAIN n |-> m[k]]

\* The map of next hop encodings of common: the filter on the keys of the
\* other descriptor is commented out in the source.
CommonNextHops(m, n) == m

common(a, b) ==
    [MP_BGP_SUPPORT |-> a.MP_BGP_SUPPORT \cap b.MP_BGP_SUPPORT,
       ROUTE_REFRESH_SUPPORT |-> a.ROUTE_REFRESH_SUPPORT /\ b.ROUTE_REFRESH_SUPPORT,
       OUTBOUND_ROUTE_FILTERING_SUPPORT |->
           a.OUTBOUND_ROUTE_FILTERING_SUPPORT \cap b.OUTBOUND_ROUTE_FILTERING_SUPPORT,
       EXTENDED_NEXT_HOP_ENCODING |->
           CommonNextHops(a.EXTENDED_NEXT_HOP_ENCODING, b.EXTENDED_NEXT_HOP_ENCODING),
       BGPSEC_SUPPORT |-> a.BGPSEC_SUPPORT /\ b.BGPSEC_SUPPORT,
       MULTIPLE_LABELS_SUPPORT |->
           CommonKeys(a.MULTIPLE_LABELS_SUPPORT, b.MULTIPLE_LABELS_SUPPORT),
       GRACEFUL_RESTART_SUPPORT |->
           a.GRACEFUL_RESTART_SUPPORT \cap b.GRACEFUL_RESTART_SUPPORT,
       FOUR_OCTET_ASN_SUPPORT |-> a.FOUR_OCTET_ASN_SUPPORT /\ b.FOUR_OCTET_ASN_SUPPORT,
       ADD_PATH_SUPPORT |-> CommonKeys(a.ADD_PATH_SUPPORT, b.ADD_PATH_SUPPORT),
       EXTENDED_PATH_NLRI_SUPPORT |->
           DOMAIN CommonKeys(a.ADD_PATH_SUPPORT, b.ADD_PATH_SUPPORT) # {},
       ENHANCED_ROUTE_REFRESH_SUPPORT |->
           a.ENHANCED_ROUTE_REFRESH_SUPPORT /\ b.ENHANCED_ROUTE_REFRESH_SUPPORT,
       LONG_LIVED_GRACEFUL_RESTART |->
           a.LONG_LIVED_GRACEFUL_RESTART /\ b.LONG_LIVED_GRACEFUL_RESTART]

(* The negotiation of a session: each side's parameters are folded into a  *)
(* descriptor, a caller may set public fields no capability fills, and     *)
(* the two descriptors are intersected.                                    *)

MaxParams == 2

\* The parameters a side may send.
NegParameters ==
    << CapabilitiesOf(<<1, 3, 10, 13, 17>>),
       CapabilitiesOf(<<2, 4, 8, 15>>),
       CapabilitiesOf(<<5, 9, 12>>),
       UnknownParameter(<<0, 1, 2, 3>>) >>

ParametersOf(idx) == [k \in 1..Len(idx) |-> NegParameters[idx[k]]]

NegIndices == BytesUpTo(1..Len(NegParameters), MaxParams)

NegFamilies == {<<<<0, 1>>, <<1>>>>, <<<<0, 2>>, <<1>>>>}

InitNegotiate ==
    /\ arg \in NegIndices \X NegIndices
    /\ caps = [a |-> Capabilities_default, b |-> Capabilities_default]
    /\ stream = <<>>
    /\ overflow_checks = TRUE
    /\ eof_seeks_end = FALSE
    /\ pos = 0
    /\ op = "none"
    /\ res = NoRes

FromParameters ==
    /\ op = "none"
    /\ caps' = [a |-> from_parameters(ParametersOf(arg[1])),
                b |-> from_parameters(ParametersOf(arg[2]))]
    /\ op' = "Capabilities::from_parameters"
    /\ UNCHANGED <<stream, pos, arg, overflow_checks, eof_seeks_end, res>>

\* A caller sets, on both sides, fields that from_parameters leaves at
\* their default.
SetFields ==
    /\ op = "Capabilities::from_parameters"
    /\ \E ka \in SUBSET NegFamilies \ {{}}, kb \in SUBSET NegFamilies, f \in BOOLEAN :
         caps' = [a |-> [caps.a EXCEPT
                           !.EXTENDED_NEXT_HOP_ENCODING = [k \in ka |-> <<0, 2>>],
                           !.GRACEFUL_RESTART_SUPPORT = ka,
                           !.BGPSEC_SUPPORT = TRUE,
                           !.ENHANCED_ROUTE_REFRESH_SUPPORT = f,
                           !.LONG_LIVED_GRACEFUL_RESTART = TRUE],
                  b |-> [caps.b EXCEPT
                           !.EXTENDED_NEXT_HOP_ENCODING = [k \in kb |-> <<0, 1>>],
                           !.GRACEFUL_RESTART_SUPPORT = kb,
                           !.BGPSEC_SUPPORT = f,
                           !.ENHANCED_ROUTE_REFRESH_SUPPORT = TRUE,
                           !.LONG_LIVED_GRACEFUL_RESTART = TRUE]]
    /\ op' = "Capabilities { .. }"
    /\ UNCHANGED <<stream, pos, arg, overflow_checks, eof_seeks_end, res>>

Common ==
    /\ op \in {"Capabilities::from_parameters", "Capabilities { .. }"}
    /\ res' = Ok(0, common(caps.a, caps.b))
    /\ op' = "Capabilities::common"
    /\ UNCHANGED <<stream, pos, caps, arg, overflow_checks, eof_seeks_end>>

NextNegotiate == FromParameters \/ SetFields \/ Common

SpecNegotiate == InitNegotiate /\ [][NextNegotiate]_vars

-----------------------------------------------------------------------------
(* update/mod.rs and tests/encode.rs, test_encode_nlri: a route built from *)
(* the public fields of Prefix is encoded and the bytes are read back by   *)
(* Prefix::parse.                                                          *)

MaxOctets == 4

NlriLengths == {0, 1, 8, 17, 18, 24, 32}

NlriOctets == {0, 1, 128, 255}

NlriPrefixes ==
    {[protocol |-> a, length |-> l, prefix |-> o] :
        a \in {1, 2}, l \in NlriLengths, o \in BytesUpTo(NlriOctets, MaxOctets)}

InitNlriEncode ==
    /\ \/ \E p \in NlriPrefixes : arg = [t |-> "IP", prefix |-> p]
       \/ \E q \in NlriPrefixes :
            arg = [t |-> "IP_WITH_PATH_ID", prefix |-> q, path_id |-> <<0, 0, 0, 1>>]
    /\ stream = <<>>
    /\ caps = DefaultCaps
    /\ overflow_checks = TRUE
    /\ eof_seeks_end = FALSE
    /\ pos = 0
    /\ op = "none"
    /\ res = NoRes

EncodeNlri ==
    /\ op = "none"
    /\ res' = NLRIEncoding_encode(arg)
    /\ stream' = IF res'.st = "ok" THEN res'.val ELSE <<>>
    /\ op' = "NLRIEncoding::encode"
    /\ UNCHANGED <<pos, caps, arg, overflow_checks, eof_seeks_end>>

\* The prefix is read back from behind the path identifier, if any.
ParsePrefix ==
    /\ op = "NLRIEncoding::encode"
    /\ res.st = "ok"
    /\ res' = Prefix_parse(stream, IF arg.t = "IP" THEN 0 ELSE 4,
                           arg.prefix.protocol, Build)
    /\ pos' = res'.pos
    /\ op' = "Prefix::parse"
    /\ UNCHANGED <<stream, caps, arg, overflow_checks, eof_seeks_end>>

NextNlriEncode == EncodeNlri \/ ParsePrefix

SpecNlriEncode == InitNlriEncode /\ [][NextNlriEncode]_vars

-----------------------------------------------------------------------------
(* update/flowspec.rs: the operators of a filter and FlowspecFilter::encode. *)
(* An operator is its byte; a value is the bytes of its type (four of a    *)
(* u32, two of a u16, one of a u8).                                        *)

\* The bits two bytes share, and the bits of either.
AndByte(a, m) ==
    LET bit(k) == ((a \div Pow2(k)) % 2) * ((m \div Pow2(k)) % 2) * Pow2(k)
    IN  bit(0) + bit(1) + bit(2) + bit(3) + bit(4) + bit(5) + bit(6) + bit(7)

OrByte(a, m) == a + m - AndByte(a, m)

\* The operator type of the filters of a type: NumericOperator,
\* BinaryOperator for TcpFlags, FragmentOperator for Fragment.
OperatorKind(filter_type) ==
    IF filter_type = 9 THEN "binary"
    ELSE IF filter_type = 12 THEN "fragment"
    ELSE "numeric"

\* The union of the flags a bitflags type declares.
OperatorAll(kind) ==
    CASE kind = "numeric" -> 247
      [] kind = "binary" -> 211
      [] kind = "fragment" -> 143

\* The complement of a flag, which bitflags truncates to the declared flags.
NotFlag(kind, flag) == AndByte(OperatorAll(kind), 255 - flag)

set_eol(kind, oper) == OrByte(oper, 128)

unset_eol_Kept(kind, oper) == oper

unset_eol(kind, oper) == AndByte(oper, NotFlag(kind, 128))

\* NumericOperator::set_length and BinaryOperator::set_length for the
\* lengths encode asks for.
set_length(kind, oper, length) ==
    IF kind = "numeric"
    THEN CASE length = 1 -> AndByte(oper, NotFlag(kind, 48))
           [] length = 2 -> OrByte(AndByte(oper, NotFlag(kind, 48)), 16)
           [] length = 4 -> OrByte(AndByte(oper, NotFlag(kind, 48)), 32)
    ELSE CASE length = 1 -> AndByte(oper, NotFlag(kind, 16))
           [] length = 2 -> OrByte(AndByte(oper, NotFlag(kind, 16)), 16)

\* The arm of the match on the value: 1 byte up to 255, 2 up to 65535, 4
\* above.
ValueWidth(value) ==
    IF \A k \in 1..(Len(value) - 1) : value[k] = 0 THEN 1
    ELSE IF \A k \in 1..(Len(value) - 2) : value[k] = 0 THEN 2
    ELSE 4

\* The operator of a pair with its end-of-list bit set on the last pair and
\* cleared on the others.
MarkedOperator(kind, oper, last) ==
    IF last THEN set_eol(kind, oper) ELSE unset_eol(kind, oper)

\* The bytes of one (operator, value) pair.
PairBytes(filter_type, pair, last) ==
    IF filter_type = 12
    THEN <<MarkedOperator("fragment", pair[1], last)>> \o pair[2]
    ELSE <<set_length(OperatorKind(filter_type),
                      MarkedOperator(OperatorKind(filter_type), pair[1], last),
                      ValueWidth(pair[2]))>>
         \o SubSeq(pair[2], Len(pair[2]) - ValueWidth(pair[2]) + 1, Len(pair[2]))

\* FlowspecFilter::encode.
FlowspecFilter_encode(f) ==
    IF f.type \in {1, 2}
    THEN IF Len(f.prefix.prefix) < octet_length(f.prefix) THEN Panic(0)
         ELSE Written(<<f.type, f.prefix.length>>
                      \o (IF f.prefix.protocol = 2 THEN <<0>> ELSE <<>>)
                      \o masked_octets(f.prefix))
    ELSE Written(<<f.type>>
                 \o Flat([k \in 1..Len(f.values) |->
                             PairBytes(f.type, f.values[k], k = Len(f.values))]))

(* tests/flowspec.rs, _filter_roundtrip: a filter is encoded, the bytes    *)
(* are parsed and the parsed filter is encoded again.                      *)

MaxPairs == 2

FilterOperators == {1, 8, 69, 176, 255}

WideValues == {<<0, 0, 0, 80>>, <<0, 0, 31, 144>>, <<0, 1, 0, 0>>, <<0, 0, 1, 0>>}

FlagValues == {<<0, 2>>, <<1, 0>>, <<0, 255>>}

ByteSizedValues == {<<0>>, <<2>>}

FilterPrefixes ==
    UNION {{[protocol |-> a, length |-> l, prefix |-> o] :
               a \in {1, 2}, o \in BytesOfLen({10, 255}, (l + 7) \div 8)} :
           l \in {0, 16, 18, 40}}

\* The lists of at most MaxPairs pairs of an operator and a value.
PairLists(values) == BytesUpTo(FilterOperators \X values, MaxPairs)

InitFilter ==
    /\ \/ \E t1 \in {1, 2}, p \in FilterPrefixes : arg = [type |-> t1, prefix |-> p]
       \/ \E t2 \in {4, 10}, w \in PairLists(WideValues) : arg = [type |-> t2, values |-> w]
       \/ \E g \in PairLists(FlagValues) : arg = [type |-> 9, values |-> g]
       \/ \E t3 \in {7, 12}, s \in PairLists(ByteSizedValues) :
            arg = [type |-> t3, values |-> s]
    /\ stream = <<>>
    /\ caps = DefaultCaps
    /\ overflow_checks = TRUE
    /\ eof_seeks_end = FALSE
    /\ pos = 0
    /\ op = "none"
    /\ res = NoRes

\* The family a filter is parsed under: that of its prefix, IPv4 otherwise.
FilterAfi == IF arg.type \in {1, 2} THEN arg.prefix.protocol ELSE 1

EncodeFilter ==
    /\ op = "none"
    /\ res' = FlowspecFilter_encode(arg)
    /\ stream' = IF res'.st = "ok" THEN res'.val ELSE <<>>
    /\ op' = "FlowspecFilter::encode"
    /\ UNCHANGED <<pos, caps, arg, overflow_checks, eof_seeks_end>>

ParseFilter ==
    /\ op = "FlowspecFilter::encode"
    /\ res.st = "ok"
    /\ res' = FlowspecFilter_parse(stream, 0, FilterAfi, Build)
    /\ pos' = res'.pos
    /\ op' = "FlowspecFilter::parse"
    /\ UNCHANGED <<stream, caps, arg, overflow_checks, eof_seeks_end>>

EncodeParsedFilter ==
    /\ op = "FlowspecFilter::parse"
    /\ res.st = "ok"
    /\ res' = FlowspecFilter_encode(res.val)
    /\ op' = "FlowspecFilter::encode again"
    /\ UNCHANGED <<stream, pos, caps, arg, overflow_checks, eof_seeks_end>>

NextFilter == EncodeFilter \/ ParseFilter \/ EncodeParsedFilter

SpecFilter == InitFilter /\ [][NextFilter]_vars

-----------------------------------------------------------------------------
(* Open::encode and OpenParameter::encode into an empty buffer, with       *)
(* parameters and capabilities around the 255 bytes a length byte holds.   *)
(* arg is the message or the parameter, stream the caller's buffer after   *)
(* the call.                                                               *)

\* Capabilities of 2, 102, 129 and 255 bytes and one of too many ADD-PATH
\* entries.
EncCapabilities ==
    << [t |-> "RouteRefresh", v |-> <<>>],
       [t |-> "Unknown", cap_code |-> 70, cap_length |-> 100, v |-> Zeros(100)],
       [t |-> "Unknown", cap_code |-> 70, cap_length |-> 127, v |-> Zeros(127)],
       [t |-> "Unknown", cap_code |-> 70, cap_length |-> 253, v |-> Zeros(253)],
       [t |-> "AddPath", v |-> Times(64, <<<<0, 1>>, <<1>>, <<2>>>>)] >>

EncCapabilitiesOf(idx) ==
    [t |-> "Capabilities", v |-> [k \in 1..Len(idx) |-> EncCapabilities[idx[k]]]]

\* Parameters of 2, 4, 129, 255, 256 and 257 bytes and one that fails.
EncParameters ==
    << UnknownParameter(<<>>),
       EncCapabilitiesOf(<<1>>),
       UnknownParameter(Zeros(127)),
       UnknownParameter(Zeros(253)),
       UnknownParameter(Zeros(254)),
       EncCapabilitiesOf(<<4>>),
       EncCapabilitiesOf(<<3, 3>>) >>

OpenOf(idx) ==
    [version |-> 4, peer_asn |-> 65000, hold_timer |-> 180, identifier |-> <<10, 0, 0, 1>>,
     parameters |-> [k \in 1..Len(idx) |-> EncParameters[idx[k]]]]

InitOpenEncode ==
    /\ \/ \E idx \in BytesUpTo(1..Len(EncParameters), MaxParams) : arg = OpenOf(idx)
       \/ \E idx \in BytesUpTo(1..Len(EncCapabilities), MaxCaps) :
            arg = EncCapabilitiesOf(idx)
       \/ \E v \in {<<>>, Zeros(254)} : arg = UnknownParameter(v)
    /\ stream = <<>>
    /\ caps = DefaultCaps
    /\ overflow_checks = TRUE
    /\ eof_seeks_end = FALSE
    /\ pos = 0
    /\ op = "none"
    /\ res = NoRes

\* The buffer after an encoder returned: what it wrote, on success and on
\* failure.
EncodeOpen ==
    /\ op = "none"
    /\ "parameters" \in DOMAIN arg
    /\ res' = Open_encode(arg)
    /\ stream' = res'.val
    /\ op' = "Open::encode"
    /\ UNCHANGED <<pos, caps, arg, overflow_checks, eof_seeks_end>>

EncodeOpenParameter ==
    /\ op = "none"
    /\ "parameters" \notin DOMAIN arg
    /\ res' = OpenParameter_encode(arg)
    /\ stream' = res'.val
    /\ op' = "OpenParameter::encode"
    /\ UNCHANGED <<pos, caps, arg, overflow_checks, eof_seeks_end>>

NextOpenEncode == EncodeOpen \/ EncodeOpenParameter

SpecOpenEncode == InitOpenEncode /\ [][NextOpenEncode]_vars

-----------------------------------------------------------------------------
(* Message::write of a message of each kind into an empty stream.  arg is  *)
(* the message, stream what was written.                                   *)

InitWrite ==
    /\ \/ \E idx \in BytesUpTo(1..Len(EncParameters), MaxParams) :
            arg = [t |-> "Open", v |-> OpenOf(idx)]
       \/ arg = [t |-> "KeepAlive", v |-> <<>>]
       \/ \E major \in 1..6, minor \in 0..2, data \in BytesUpTo({0, 7}, 2) :
            arg = [t |-> "Notification",
                   v |-> [major_err_code |-> major, minor_err_code |-> minor,
                          data |-> data]]
       \/ \E n \in 0..1 :
            arg = [t |-> "Update",
                   v |-> [withdrawn_routes |-> <<>>, attributes |-> <<>>,
                          announced_routes |->
                              [k \in 1..n |->
                                  [t |-> "IP",
                                   prefix |-> [protocol |-> 1, length |-> 8,
                                               prefix |-> <<10>>]]]]]
       \/ \E a \in {1, 2}, s \in {1, 2} :
            arg = [t |-> "RouteRefresh", v |-> [afi |-> a, safi |-> s]]
    /\ stream = <<>>
    /\ caps = DefaultCaps
    /\ overflow_checks = TRUE
    /\ eof_seeks_end = FALSE
    /\ pos = 0
    /\ op = "none"
    /\ res = NoRes

WriteMessage ==
    /\ op = "none"
    /\ res' = Message_write(arg)
    /\ stream' = IF res'.st = "ok" THEN res'.val ELSE <<>>
    /\ op' = "Message::write"
    /\ UNCHANGED <<pos, caps, arg, overflow_checks, eof_seeks_end>>

NextWrite == WriteMessage

SpecWrite == InitWrite /\ [][NextWrite]_vars

-----------------------------------------------------------------------------
(* Update::normalize called on a parsed UPDATE, and called again.  arg is  *)
(* the message before the last call, res the message after it, pos the     *)
(* number of calls.                                                        *)

\* The most calls of normalize on one message.
MaxCalls == 2

\* ORIGIN, MP_REACH_NLRI of IPv4 unicast with one route, with two routes and
\* with none, MP_UNREACH_NLRI of IPv4 unicast with one route and with none.
NormAttrs ==
    << <<64, 1, 1, 0>>,
       <<128, 14, 11, 0, 1, 1, 4, 10, 0, 0, 1, 0, 8, 10>>,
       <<128, 14, 14, 0, 1, 1, 4, 10, 0, 0, 1, 0, 8, 11, 16, 12, 1>>,
       <<128, 14, 9, 0, 1, 1, 4, 10, 0, 0, 1, 0>>,
       <<128, 15, 5, 0, 1, 1, 8, 20>>,
       <<128, 15, 3, 0, 1, 1>> >>

NormBody(wd, idx, nlri) ==
    UpdateBody(wd, Flat([k \in 1..Len(idx) |-> NormAttrs[idx[k]]]), nlri)

\* Update::get: the first attribute of the identifier, none when the
\* message holds none.
Update_get(u, id) ==
    IF \E k \in 1..Len(u.attributes) : u.attributes[k].id = id
    THEN <<u.attributes[CHOOSE k \in 1..Len(u.attributes) :
                /\ u.attributes[k].id = id
                /\ \A j \in 1..(k - 1) : u.attributes[j].id # id]>>
    ELSE <<>>

\* The routes normalize takes from the attribute found.
Found(attribute, field) == IF attribute = <<>> THEN <<>> ELSE attribute[1].v[field]

\* Update::normalize: the routes are cloned, the attributes stay.
normalize(u) ==
    [u EXCEPT
        !.announced_routes = @ \o Found(Update_get(u, 14), "announced_routes"),
        !.withdrawn_routes = @ \o Found(Update_get(u, 15), "withdrawn_routes")]

\* The message Update::parse returns for a body.
Parsed(body) ==
    Update_parse(body, 0, 19 + Len(body), DefaultCaps, [oc |-> TRUE, ee |-> FALSE])

InitNormalize ==
    /\ \E wd \in {<<>>, <<8, 1>>}, idx \in BytesUpTo(1..Len(NormAttrs), MaxAttrs),
          nlri \in {<<>>, <<8, 2>>, <<24, 10, 0, 1>>} :
          /\ stream = NormBody(wd, idx, nlri)
          /\ Parsed(stream).st = "ok"
          /\ arg = Parsed(stream).val
    /\ caps = DefaultCaps
    /\ overflow_checks = TRUE
    /\ eof_seeks_end = FALSE
    /\ pos = 0
    /\ op = "none"
    /\ res = NoRes

Normalize ==
    /\ pos < MaxCalls
    /\ arg' = IF pos = 0 THEN arg ELSE res.val
    /\ res' = Ok(pos + 1, normalize(arg'))
    /\ pos' = pos + 1
    /\ op' = "Update::normalize"
    /\ UNCHANGED <<stream, caps, overflow_checks, eof_seeks_end>>

NextNormalize == Normalize

SpecNormalize == InitNormalize /\ [][NextNormalize]_vars

-----------------------------------------------------------------------------
(* The attribute loop of Update::parse and the loop of ATTR_SET, one       *)
(* iteration at a time.  stream is the buffer of the loop, pos its cursor, *)
(* arg the loop and the number of its iterations so far, res the result   *)
(* of the last PathAttribute::parse, op whether the loop goes on or has   *)
(* returned.                                                               *)

\* An ATTR_SET holding an ATTR_SET that holds the attributes of inner.
NestedSet(inner) ==
    <<192, 128, 11 + Len(inner), 0, 0, 0, 1, 192, 128, 4 + Len(inner), 0, 0, 0, 2>>
        \o inner

LoopBuffers ==
    AttrSeqs(MaxAttrs) \cup SetAttrs
        \cup {NestedSet(inner) \o tail :
                 inner \in {<<>>, <<64, 1, 1, 0>>, <<64, 1>>, <<192, 128, 3, 0, 0, 0>>},
                 tail \in {<<>>, <<64>>, <<64, 1, 1, 0>>}}

InitAttrLoop ==
    /\ stream \in LoopBuffers
    /\ \E loop \in {"Update::parse", "ATTR_SET"} : arg = [loop |-> loop, iterations |-> 0]
    /\ caps = DefaultCaps
    /\ overflow_checks = FALSE
    /\ eof_seeks_end \in BOOLEAN
    /\ pos = 0
    /\ op = "loop"
    /\ res = NoRes

\* The cursor after PathAttribute::parse returned a: the loops share their
\* cursor with the parse and leave it where the parse left it, also when
\* the attribute is skipped.
CursorAfter_Rewound(a, c) == IF a.st = "ok" THEN a.pos ELSE c

CursorAfter(a, c) == a.pos

\* The loop returns on a panic and, in Update::parse, on UnexpectedEof.
LoopReturns(a, loop) ==
    \/ a.st = "panic"
    \/ loop = "Update::parse" /\ a.st = "err" /\ a.kind = "eof"

\* One iteration: the condition of the while holds and an attribute is
\* parsed.
Iterate ==
    /\ op = "loop"
    /\ pos < Len(stream)
    /\ res' = PathAttribute_parse(stream, pos, caps, Build)
    /\ pos' = CursorAfter(res', pos)
    /\ op' = IF LoopReturns(res', arg.loop) THEN "returned" ELSE "loop"
    /\ arg' = [arg EXCEPT !.iterations = @ + 1]
    /\ UNCHANGED <<stream, caps, overflow_checks, eof_seeks_end>>

\* The condition of the while fails.
LeaveLoop ==
    /\ op = "loop"
    /\ ~(pos < Len(stream))
    /\ op' = "returned"
    /\ UNCHANGED <<stream, pos, caps, arg, overflow_checks, eof_seeks_end, res>>

NextAttrLoop == Iterate \/ LeaveLoop

SpecAttrLoop == InitAttrLoop /\ [][NextAttrLoop]_vars

-----------------------------------------------------------------------------
(* OpenCapability::parse applied to a cursor at the start of a capability. *)
(* stream is the value of the enclosing parameter, pos the cursor after    *)
(* the parse.                                                              *)

\* The most bytes after the code and the length of an enumerated capability.
MaxCapBody == 6

CapBytes == {0, 1, 3}

CapCodes == {1, 2, 3, 8, 65, 69, 70}

InitCapability ==
    /\ \E cap_code \in CapCodes, cap_length \in {0, 4, 5, 7, 8},
          body \in BytesUpTo(CapBytes, MaxCapBody) :
          stream = <<cap_code, cap_length>> \o body
    /\ eof_seeks_end \in BOOLEAN
    /\ overflow_checks = FALSE
    /\ caps = DefaultCaps
    /\ pos = 0
    /\ arg = 0
    /\ op = "none"
    /\ res = NoRes

ParseCapability ==
    /\ op = "none"
    /\ op' = "OpenCapability::parse"
    /\ res' = OpenCapability_parse(stream, pos, eof_seeks_end)
    /\ pos' = res'.pos
    /\ UNCHANGED <<stream, caps, arg, overflow_checks, eof_seeks_end>>

NextCapability == ParseCapability

SpecCapability == InitCapability /\ [][NextCapability]_vars

-----------------------------------------------------------------------------
(* The two NLRI layouts as structural predicates on the bytes from offset  *)
(* p to the end of the buffer.                                             *)

\* One record at offset p (its length byte) fits, is at most max_bit_len
\* bits long and has no bit set past the prefix length.
RecordValid(b, p, max_bit_len) ==
    /\ p < Len(b)
    /\ b[p + 1] <= max_bit_len
    /\ p + 1 + AddrLen(b[p + 1]) <= Len(b)
    /\ (b[p + 1] % 8 > 0 => ~BitsPastPrefix(b[p + 1 + AddrLen(b[p + 1])], b[p + 1]))

RECURSIVE PlainLayout(_, _, _)
PlainLayout(b, p, max_bit_len) ==
    \/ p = Len(b)
    \/ /\ RecordValid(b, p, max_bit_len)
       /\ PlainLayout(b, p + 1 + AddrLen(b[p + 1]), max_bit_len)

RECURSIVE PathIdLayout(_, _, _)
PathIdLayout(b, p, max_bit_len) ==
    \/ p = Len(b)
    \/ /\ RecordValid(b, p + 4, max_bit_len)
       /\ PathIdLayout(b, p + 4 + 1 + AddrLen(b[p + 5]), max_bit_len)

\* The plain layout, where a record of length 0 followed by further bytes
\* does not validate.
RECURSIVE PlainLayoutNoInnerZero(_, _, _)
PlainLayoutNoInnerZero(b, p, max_bit_len) ==
    \/ p = Len(b)
    \/ /\ RecordValid(b, p, max_bit_len)
       /\ (b[p + 1] = 0 => p + 1 = Len(b))
       /\ PlainLayoutNoInnerZero(b, p + 1 + AddrLen(b[p + 1]), max_bit_len)

Detected == op = "detect_add_path_prefix"

-----------------------------------------------------------------------------
(* AS_PATH width probing: C8, C9.                                          *)

\* The structural walk of a body under one ASN width: (type, count) headers,
\* each followed by count ASNs, ending exactly at the end of the body.
RECURSIVE WalkCloses(_, _, _)
WalkCloses(body, p, width) ==
    \/ p = Len(body)
    \/ /\ p + 2 <= Len(body)
       /\ WalkCloses(body, p + 2 + body[p + 2] * width, width)

\* Every segment header after the first met by the walk has type 1 or 2.
RECURSIVE LaterTypesValid(_, _, _, _)
LaterTypesValid(body, p, width, n) ==
    \/ p + 2 > Len(body)
    \/ /\ n = 0 \/ body[p + 1] \in {1, 2}
       /\ LaterTypesValid(body, p + 2 + body[p + 2] * width, width, n + 1)

SegmentsParsed == op = "parse_unknown_segments" /\ arg = Len(stream)

BothWidthsClose == WalkCloses(stream, 0, 2) /\ WalkCloses(stream, 0, 4)

SameOutcome(r, d) == r.st = d.st /\ r.kind = d.kind /\ r.val = d.val

C9_AsStated ==
    (SegmentsParsed /\ ~WalkCloses(stream, 0, 2) /\ ~WalkCloses(stream, 0, 4)) =>
        (res.st = "err" /\ res.kind = "other")

-----------------------------------------------------------------------------
(* Attribute framing: C3.                                                  *)

HeaderLen(b) == IF (b[1] \div 16) % 2 = 0 THEN 3 ELSE 4

DeclaredLen(b) == IF HeaderLen(b) = 3 THEN b[3] ELSE b[3] * 256 + b[4]

AttrParsed == op = "PathAttribute::parse"

\* The stream holds the whole header and at least the declared body.
BodyAvailable ==
    /\ Len(stream) >= 3
    /\ Len(stream) >= HeaderLen(stream)
    /\ Len(stream) >= HeaderLen(stream) + DeclaredLen(stream)

\* C3 (as stated): given at least the declared body bytes, PathAttribute::parse
\* leaves the stream exactly header + declared length past the start of the
\* attribute, whatever the decoder of the attribute does.
C3_AsStated ==
    (AttrParsed /\ BodyAvailable) =>
        res.pos = HeaderLen(stream) + DeclaredLen(stream)

-----------------------------------------------------------------------------
(* UPDATE framing: C2, C4, C7.                                             *)

UpdateParsed == op = "Update::parse"

\* The section lengths declared in the body, where the stream holds them.
WithdrawLen == U16(SubSeq(stream, 1, 2))

AttrLen == U16(SubSeq(stream, 3 + WithdrawLen, 4 + WithdrawLen))

\* C2: Update::parse returns an error when header.length is below 23, when
\* the withdrawn length exceeds header.length - 23, and when the attribute
\* length exceeds what the withdrawn routes leave of it; in each case the
\* stream stands before the first byte of the section that is too long.
C2_BogusLengths ==
    UpdateParsed =>
        /\ arg < 23 => (res.st = "err" /\ res.pos = 0)
        /\ (arg >= 23 /\ Len(stream) >= 2 /\ WithdrawLen > arg - 23) =>
               (res.st = "err" /\ res.pos = 2)
        /\ (arg >= 23 /\ Len(stream) >= 2 /\ WithdrawLen <= arg - 23
               /\ Len(stream) >= 4 + WithdrawLen
               /\ AttrLen > arg - 23 - WithdrawLen) =>
               (res.st = "err" /\ res.pos <= 4 + WithdrawLen)

C2_Witness ==
    /\ UpdateParsed
    /\ arg >= 23
    /\ Len(stream) >= 2
    /\ WithdrawLen > 0
    /\ WithdrawLen <= arg - 23
    /\ Len(stream) > 4 + WithdrawLen
    /\ AttrLen > arg - 23 - WithdrawLen
    /\ res.st = "err"
    /\ res.kind = "other"
    /\ res.pos = 4 + WithdrawLen

\* The UPDATE is framed as its sender framed it: header.length covers the
\* body, and the body holds both section lengths and all three sections.
WellFramed ==
    /\ arg = 19 + Len(stream)
    /\ Len(stream) >= 2
    /\ Len(stream) >= 4 + WithdrawLen
    /\ Len(stream) >= 4 + WithdrawLen + AttrLen

WithdrawnBlock == SubSeq(stream, 3, 2 + WithdrawLen)

AttrBlock == SubSeq(stream, 5 + WithdrawLen, 4 + WithdrawLen + AttrLen)

NlriBlock == SubSeq(stream, 5 + WithdrawLen + AttrLen, Len(stream))

\* The attribute at offset c of the block, by its header and declared length.
AttrAt(block, c) ==
    LET rest == SubSeq(block, c + 1, Len(block))
    IN  SubSeq(rest, 1, HeaderLen(rest) + DeclaredLen(rest))

\* The block is a run of attributes, each wholly inside it.
RECURSIVE AttrsFramed(_, _)
AttrsFramed(block, c) ==
    \/ c = Len(block)
    \/ /\ c + 3 <= Len(block)
       /\ LET rest == SubSeq(block, c + 1, Len(block))
          IN  /\ HeaderLen(rest) <= Len(rest)
              /\ HeaderLen(rest) + DeclaredLen(rest) <= Len(rest)
              /\ AttrsFramed(block, c + HeaderLen(rest) + DeclaredLen(rest))

\* The attributes of a framed block that decode, each decoded on its own, in
\* wire order.
RECURSIVE DecodableAttrs(_, _, _, _)
DecodableAttrs(block, c, cp, bld) ==
    IF c = Len(block) THEN <<>>
    ELSE LET a == AttrAt(block, c)
             r == PathAttribute_parse(a, 0, cp, bld)
         IN  (IF r.st = "ok" THEN <<r.val>> ELSE <<>>)
                 \o DecodableAttrs(block, c + Len(a), cp, bld)

\* C4 (as stated): when every attribute lies wholly inside the declared
\* attribute block, the attribute loop skips the ones that do not decode and
\* returns the others in wire order; it does not abort the UPDATE.
C4_AsStated ==
    (/\ UpdateParsed
     /\ WellFramed
     /\ AttrsFramed(AttrBlock, 0)
     /\ IpRoutes(WithdrawnBlock, 0, 255, Build, <<>>).st = "ok"
     /\ IpRoutes(NlriBlock, 0, 32, Build, <<>>).st = "ok") =>
        /\ res.st = "ok"
        /\ res.val.attributes = DecodableAttrs(AttrBlock, 0, caps, Build)

\* C7 (as stated): with EXTENDED_PATH_NLRI_SUPPORT set, a withdrawn block that
\* is well formed in the path-ID layout is decoded as IP_WITH_PATH_ID routes
\* only.
C7_AsStated ==
    (/\ UpdateParsed
     /\ caps.EXTENDED_PATH_NLRI_SUPPORT
     /\ WellFramed
     /\ WithdrawLen > 0
     /\ AttrLen = 0
     /\ NlriBlock = <<>>
     /\ PathIdLayout(WithdrawnBlock, 0, 32)) =>
        /\ res.st = "ok"
        /\ \A k \in 1..Len(res.val.withdrawn_routes) :
               res.val.withdrawn_routes[k].t = "IP_WITH_PATH_ID"

-----------------------------------------------------------------------------
(* C5: the declared optional-parameter length of OPEN.                     *)

OpenParsed == op = "Open::parse"

\* The declared parameter length, the tenth byte of the OPEN body.
OpenDeclared == stream[10]

\* The offset at which the parameter records that start at offset p end:
\* each record is a type byte, a length byte and that many value bytes, and
\* records are taken while fewer than declared bytes have been taken.  The
\* offset is -1 when the stream ends inside a record.
RECURSIVE RecordsEnd(_, _, _)
RecordsEnd(b, p, declared) ==
    IF p - 10 >= declared THEN p
    ELSE IF p + 2 > Len(b) \/ p + 2 + b[p + 2] > Len(b) THEN -1
    ELSE RecordsEnd(b, p + 2 + b[p + 2], declared)

\* C5: Open::parse returns an Open value only when the parameter records it
\* read take exactly the declared length, and it then stands right after
\* them; when the records take more than declared, or the stream ends
\* before the declared length is reached, it returns an error.
C5_OpenLength ==
    (OpenParsed /\ Len(stream) >= 10) =>
        /\ res.st \in {"ok", "err"}
        /\ res.st = "ok" =>
              /\ RecordsEnd(stream, 10, OpenDeclared) = 10 + OpenDeclared
              /\ res.pos = 10 + OpenDeclared
        /\ RecordsEnd(stream, 10, OpenDeclared) > 10 + OpenDeclared =>
              res.st = "err"
        /\ Len(stream) < 10 + OpenDeclared => res.st = "err"

\* An OPEN whose records overshoot the declared length was refused for it.
C5_Witness ==
    /\ OpenParsed
    /\ Len(stream) >= 10
    /\ RecordsEnd(stream, 10, OpenDeclared) > 10 + OpenDeclared
    /\ res.st = "err"
    /\ res.kind = "invalid"

-----------------------------------------------------------------------------
(* C1: Reader::read never panics.                                          *)

MessageRead == op = "Reader::read"

\* C1 (as stated): whatever the bytes and the capabilities, Reader::read ends
\* by returning Ok or an Err value and never panics.
C1_AsStated == MessageRead => res.st \in {"ok", "err"}

-----------------------------------------------------------------------------
(* C10: parse then encode.                                                 *)

MessageEncoded == op = "Message::encode"

\* C10 (as stated): for a well-formed message that Reader::read parses with
\* default capabilities, encoding the parsed message gives back the bytes
\* read, the flags and the length form of every path attribute included.
C10_AsStated == MessageEncoded => (res.st = "ok" /\ res.val = stream)

-----------------------------------------------------------------------------
(* C11: encode, parse and encode again of one path attribute.              *)

\* C11 (as stated): for every attribute of a kind with a body encoder, the
\* parse of its encoding succeeds and consumes all encoded bytes, and the
\* encoding of the parsed attribute is the encoding of the attribute.
C11_AsStated ==
    /\ op = "PathAttribute::parse" => (res.st = "ok" /\ pos = Len(stream))
    /\ op = "PathAttribute::encode again" => (res.st = "ok" /\ res.val = stream)

-----------------------------------------------------------------------------
(* C12: the round trip of an OPEN parameter.                               *)

\* C12 (as stated): whenever the encoding of an OpenParameter has been
\* parsed back, the parse has succeeded and the parameter it returned is
\* equal to the parameter that was encoded.
C12_AsStated ==
    op = "OpenParameter::parse" =>
        (res.st = "ok" /\ SameParameter(res.val.param, arg))

-----------------------------------------------------------------------------
(* C13, C14, C15: the descriptor of a session.                             *)

\* Whether the flag of descriptor c tells that it holds an ADD-PATH entry.
PathNlriFlag(c) == c.EXTENDED_PATH_NLRI_SUPPORT <=> (DOMAIN c.ADD_PATH_SUPPORT # {})

\* C13 (as stated): in every descriptor returned by from_parameters and in
\* every descriptor returned by common, EXTENDED_PATH_NLRI_SUPPORT is true
\* exactly when ADD_PATH_SUPPORT holds at least one entry.
C13_AsStated ==
    /\ op = "Capabilities::from_parameters" => (PathNlriFlag(caps.a) /\ PathNlriFlag(caps.b))
    /\ op = "Capabilities::common" => PathNlriFlag(res.val)

\* The map m holds exactly the keys of both a and b, each with the value
\* of a or of b.
EitherValue(m, a, b) ==
    /\ DOMAIN m = DOMAIN a \cap DOMAIN b
    /\ \A k \in DOMAIN m : m[k] \in {a[k], b[k]}

SetFieldNames ==
    {"MP_BGP_SUPPORT", "OUTBOUND_ROUTE_FILTERING_SUPPORT", "GRACEFUL_RESTART_SUPPORT"}

BooleanFieldNames ==
    {"ROUTE_REFRESH_SUPPORT", "BGPSEC_SUPPORT", "FOUR_OCTET_ASN_SUPPORT",
     "EXTENDED_PATH_NLRI_SUPPORT", "ENHANCED_ROUTE_REFRESH_SUPPORT",
     "LONG_LIVED_GRACEFUL_RESTART"}

MapFieldNames ==
    {"EXTENDED_NEXT_HOP_ENCODING", "MULTIPLE_LABELS_SUPPORT", "ADD_PATH_SUPPORT"}

\* C14 (as stated): the descriptor returned by common(a, b) holds, in every
\* set-valued field, the intersection of the fields of a and b, in every
\* boolean field their conjunction, and in every map-valued field exactly
\* the keys of both, each with the value of a or of b.
C14_AsStated ==
    op = "Capabilities::common" =>
        /\ \A f \in SetFieldNames : res.val[f] = caps.a[f] \cap caps.b[f]
        /\ \A f \in BooleanFieldNames : res.val[f] = (caps.a[f] /\ caps.b[f])
        /\ \A f \in MapFieldNames : EitherValue(res.val[f], caps.a[f], caps.b[f])

\* Every entry of capability c is held by the descriptor d.
EntriesKept(c, d) ==
    CASE c.t = "MultiProtocol" -> CapabilityEntries(c) \subseteq d.MP_BGP_SUPPORT
      [] c.t = "OutboundRouteFiltering" ->
           CapabilityEntries(c) \subseteq d.OUTBOUND_ROUTE_FILTERING_SUPPORT
      [] c.t = "MultipleLabels" ->
           \A e \in CapabilityEntries(c) :
               /\ <<e[1], e[2]>> \in DOMAIN d.MULTIPLE_LABELS_SUPPORT
               /\ d.MULTIPLE_LABELS_SUPPORT[<<e[1], e[2]>>] = e[3]
      [] c.t = "AddPath" ->
           \A e \in CapabilityEntries(c) :
               /\ <<e[1], e[2]>> \in DOMAIN d.ADD_PATH_SUPPORT
               /\ d.ADD_PATH_SUPPORT[<<e[1], e[2]>>] = e[3]
      [] OTHER -> TRUE

ParametersKept(parameters, d) ==
    \A i \in 1..Len(parameters) :
        parameters[i].t = "Capabilities" =>
            \A k \in 1..Len(parameters[i].v) : EntriesKept(parameters[i].v[k], d)

\* C15 (as stated): the descriptor returned by from_parameters holds every
\* MultiProtocol family, every OutboundRouteFiltering entry, every
\* MultipleLabels entry and every AddPath entry of every capability of
\* every Capabilities parameter of the list, also when the list repeats a
\* kind of capability.
C15_AsStated ==
    op = "Capabilities::from_parameters" =>
        /\ ParametersKept(ParametersOf(arg[1]), caps.a)
        /\ ParametersKept(ParametersOf(arg[2]), caps.b)

-----------------------------------------------------------------------------
(* C16: the prefixes of a parsed message.                                  *)

\* A prefix within the maximum of its family whose octets are those its
\* length covers.
PrefixWellFormed(p) ==
    /\ p.length <= (IF p.protocol = 1 THEN 32 ELSE 128)
    /\ Len(p.prefix) = (p.length + 7) \div 8

\* The prefixes a route holds, those of the filters of a Flowspec included.
RoutePrefixes(route) ==
    CASE route.t \in {"IP", "IP_WITH_PATH_ID", "IP_MPLS", "IP_MPLS_WITH_PATH_ID",
                      "IP_VPN_MPLS"} -> {route.prefix}
      [] route.t = "FLOWSPEC" ->
           {route.filters[k].prefix :
                k \in {j \in 1..Len(route.filters) : route.filters[j].type \in {1, 2}}}
      [] OTHER -> {}

\* The routes of MP_REACH_NLRI and of MP_UNREACH_NLRI.
AttributeRoutes(a) ==
    IF a.id = 14 THEN a.v.announced_routes
    ELSE IF a.id = 15 THEN a.v.withdrawn_routes
    ELSE <<>>

RoutesWellFormed(routes) ==
    \A k \in 1..Len(routes) : \A p \in RoutePrefixes(routes[k]) : PrefixWellFormed(p)

\* C16 (as stated): every prefix of a successfully parsed attribute, of
\* whatever encoding of MP_REACH_NLRI and MP_UNREACH_NLRI and of the prefix
\* filters of Flowspec, has a length within the maximum of its family (32
\* for IPv4, 128 for IPv6) and exactly ceil(length / 8) octets; a record
\* over the maximum makes the parse fail.
C16_AsStated ==
    (op = "PathAttribute::parse" /\ res.st = "ok") =>
        RoutesWellFormed(AttributeRoutes(res.val))

-----------------------------------------------------------------------------
(* C19: an MPLS or MPLS-VPN record of length 0.                            *)

\* The attribute at the head of the stream is an MP_REACH_NLRI with an
\* empty next hop or an MP_UNREACH_NLRI, of IPv4 or IPv6, with all its bytes
\* present.
MpSafi == stream[HeaderLen(stream) + 3]

IsMpAttribute ==
    /\ Len(stream) >= 8
    /\ stream[1] \in {128, 144} /\ stream[2] \in {14, 15}
    /\ stream[HeaderLen(stream) + 1] = 0 /\ stream[HeaderLen(stream) + 2] \in {1, 2}
    /\ stream[2] = 14 => stream[HeaderLen(stream) + 4] = 0
    /\ Len(stream) >= HeaderLen(stream) + DeclaredLen(stream)

\* Its NLRI.
MpNlri ==
    SubSeq(stream, HeaderLen(stream) + (IF stream[2] = 14 THEN 6 ELSE 4),
           HeaderLen(stream) + DeclaredLen(stream))

\* The first NLRI record of an attribute under SAFI Mpls or MplsVpn has
\* length_bits 0, with no path identifier in front of it.
FirstRecordEmpty ==
    /\ IsMpAttribute
    /\ MpSafi \in {4, 128}
    /\ MpNlri # <<>> /\ MpNlri[1] = 0
    /\ MpSafi = 4 => (LET d == detect_add_path_prefix(MpNlri, 0, 255)
                      IN  d.st = "ok" /\ ~d.val)

\* C19 (as stated): when an NLRI record of MP_REACH_NLRI or MP_UNREACH_NLRI
\* under SAFI Mpls or MplsVpn has length_bits 0, the parse returns the
\* error of a malformed NLRI.
C19_AsStated ==
    (op = "PathAttribute::parse" /\ FirstRecordEmpty) =>
        (res.st = "err" /\ res.kind = "other")

-----------------------------------------------------------------------------
(* C20: the declared length of a Flowspec NLRI.                            *)

\* The number of NLRI the buffer b holds from p on when each takes its
\* length byte and the bytes that byte declares, or -1 when the last one
\* runs past the end of the buffer.
RECURSIVE DeclaredNlri(_, _)

OneMore(n) == IF n = -1 THEN -1 ELSE n + 1

DeclaredNlri(b, p) ==
    IF p = Len(b) THEN 0
    ELSE IF p + 1 + b[p + 1] > Len(b) THEN -1
    ELSE OneMore(DeclaredNlri(b, p + 1 + b[p + 1]))

\* The attribute at the head of the stream is an MP_REACH_NLRI of Flowspec.
IsFlowspecReach == IsMpAttribute /\ stream[2] = 14 /\ MpSafi = 133

\* The first filter of the first NLRI parses and ends past the length the
\* NLRI declares.
FirstFilterOvershoots ==
    /\ IsFlowspecReach
    /\ MpNlri # <<>> /\ MpNlri[1] > 0
    /\ LET f == FlowspecFilter_parse(MpNlri, 1, stream[HeaderLen(stream) + 2], Build)
       IN  f.st = "ok" /\ f.pos - 1 > MpNlri[1]

\* C20 (as stated): when an MP_REACH_NLRI of Flowspec parses, the filters of
\* each NLRI take exactly the bytes its length byte declares; a filter that
\* runs past the declared length makes the parse return an error.
C20_AsStated ==
    op = "PathAttribute::parse" =>
        /\ (IsFlowspecReach /\ res.st = "ok") =>
               DeclaredNlri(MpNlri, 0) = Len(res.val.v.announced_routes)
        /\ FirstFilterOvershoots => res.st = "err"

-----------------------------------------------------------------------------
(* C17, C18: the encoding of a prefix.                                     *)

\* The first ceil(length / 8) octets of prefix p.
CoveredOctets(p) == [k \in 1..((p.length + 7) \div 8) |-> p.prefix[k]]

HoldsCovered(p) == Len(p.prefix) >= (p.length + 7) \div 8

\* C17: for a prefix whose vector holds at least ceil(length / 8) octets,
\* NLRIEncoding::IP(prefix).encode succeeds and writes the length byte
\* followed by exactly the first ceil(length / 8) octets, and nothing else.
C17_EncodedOctets ==
    (op = "NLRIEncoding::encode" /\ arg.t = "IP" /\ HoldsCovered(arg.prefix)) =>
        /\ res.st = "ok"
        /\ stream = <<arg.prefix.length>> \o CoveredOctets(arg.prefix)

\* A /17 held in four octets has been encoded into the length and three
\* octets.
C17_Witness ==
    /\ op = "NLRIEncoding::encode" /\ arg.t = "IP"
    /\ arg.prefix.length = 17 /\ Len(arg.prefix.prefix) = 4
    /\ stream = <<17>> \o SubSeq(arg.prefix.prefix, 1, 3)

\* The bits of octet o beyond the first n % 8, for a length n that does not
\* end on an octet.
BitsBeyond(o, n) == o % Pow2(8 - (n % 8))

-----------------------------------------------------------------------------
(* The operator bytes and value widths FlowspecFilter::encode writes.      *)

\* The number a value's bytes stand for, most significant first.
ValueNumber(value) ==
    IF Len(value) = 1 THEN value[1]
    ELSE IF Len(value) = 2 THEN U16(value)
    ELSE U16(SubSeq(value, 1, 2)) * 65536 + U16(SubSeq(value, 3, 4))

\* The fewest of 1, 2 or 4 bytes that hold a value.
SmallestWidth(value) ==
    IF ValueNumber(value) <= 255 THEN 1
    ELSE IF ValueNumber(value) <= 65535 THEN 2 ELSE 4

RECURSIVE PairOffset(_)
\* The offset in the encoding at which pair k of the filter begins.
PairOffset(k) ==
    IF k = 1 THEN 1
    ELSE PairOffset(k - 1) + 1 + SmallestWidth(arg.values[k - 1][2])

\* The operator byte written for pair k and the value bytes after it.
WrittenOperator(k) == stream[PairOffset(k) + 1]

WrittenValue(k) ==
    SubSeq(stream, PairOffset(k) + 2, PairOffset(k) + 1 + SmallestWidth(arg.values[k][2]))

\* The width the size bits of an operator byte declare.
DeclaredWidth(oper) == Pow2(AndByte(oper, 48) \div 16)

ListEncoded == op = "FlowspecFilter::encode" /\ arg.type \notin {1, 2}

\* C21: FlowspecFilter::encode of an (operator, value) list sets the
\* end-of-list bit on the last pair and clears it on every other pair, sets
\* the size bits of the operators of u32 and TcpFlags values to the smallest
\* of 1, 2 or 4 bytes (1 or 2 for TcpFlags) that holds the value, and writes
\* the value in exactly that many bytes.
C21_EolAndWidth ==
    ListEncoded =>
        /\ res.st = "ok"
        /\ Len(stream) = PairOffset(Len(arg.values) + 1)
        /\ \A k \in 1..Len(arg.values) :
              /\ (AndByte(WrittenOperator(k), 128) = 128) <=> (k = Len(arg.values))
              /\ arg.type \in {4, 9, 10} =>
                    DeclaredWidth(WrittenOperator(k)) = SmallestWidth(arg.values[k][2])
              /\ ValueNumber(WrittenValue(k)) = ValueNumber(arg.values[k][2])

\* A two-pair port list whose first operator came with the end-of-list bit
\* set and whose values need 2 and 4 bytes.
C21_Witness ==
    /\ ListEncoded
    /\ arg.type = 4
    /\ Len(arg.values) = 2
    /\ AndByte(arg.values[1][1], 128) = 128
    /\ SmallestWidth(arg.values[1][2]) = 2
    /\ SmallestWidth(arg.values[2][2]) = 4
    /\ Len(stream) = 9

-----------------------------------------------------------------------------
(* The round trip of a filter through encode, parse and encode.            *)

\* C22: for every FlowspecFilter, parsing its encoding succeeds and consumes
\* exactly the encoded bytes, and encoding the parsed filter again yields
\* exactly the bytes of the first encoding, for every filter kind and every
\* list of (operator, value) pairs.
C22_AsStated ==
    /\ op = "FlowspecFilter::parse" => res.st = "ok" /\ pos = Len(stream)
    /\ op = "FlowspecFilter::encode again" => res.st = "ok" /\ res.val = stream

-----------------------------------------------------------------------------
(* The 255-byte limits of Open::encode and OpenParameter::encode.          *)

\* The serialized items of a list, when each of them encodes.
Serialized(items, kind) == EncodeAll(items, kind, <<>>)

TooLong(r) == r.st = "ok" /\ Len(r.val) > 255

\* C23: Open::encode fails whenever the serialized optional parameters
\* exceed 255 bytes and OpenParameter::encode whenever the serialized
\* capabilities exceed 255 bytes, and in every failing case nothing has been
\* written to the caller's buffer when the error is returned.
C23_AsStated ==
    /\ op = "Open::encode" =>
          /\ TooLong(Serialized(arg.parameters, "parameter")) => res.st = "err"
          /\ res.st = "err" => stream = <<>>
    /\ op = "OpenParameter::encode" =>
          /\ (arg.t = "Capabilities" /\ TooLong(Serialized(arg.v, "capability")))
                => res.st = "err"
          /\ res.st = "err" => stream = <<>>

-----------------------------------------------------------------------------
(* The header Message::write puts before the body.                         *)

\* The type code of each kind of message.
TypeCode ==
    [Open |-> 1, Update |-> 2, Notification |-> 3, KeepAlive |-> 4, RouteRefresh |-> 5]

-----------------------------------------------------------------------------
(* Update::normalize and a second call of it.                              *)

\* The routes of the first attribute of the identifier.
FirstRoutes(u, id) ==
    IF \A k \in 1..Len(u.attributes) : u.attributes[k].id # id THEN <<>>
    ELSE AttributeRoutes(u.attributes[CHOOSE k \in 1..Len(u.attributes) :
                            /\ u.attributes[k].id = id
                            /\ \A j \in 1..(k - 1) : u.attributes[j].id # id])

\* C25: Update::normalize appends the routes of MP_REACH_NLRI to
\* announced_routes and those of MP_UNREACH_NLRI to withdrawn_routes, and a
\* second call leaves both lists as they were after the first.
C25_AsStated ==
    op = "Update::normalize" =>
        /\ pos = 1 =>
              /\ res.val.announced_routes
                     = arg.announced_routes \o FirstRoutes(arg, 14)
              /\ res.val.withdrawn_routes
                     = arg.withdrawn_routes \o FirstRoutes(arg, 15)
        /\ pos > 1 =>
              /\ res.val.announced_routes = arg.announced_routes
              /\ res.val.withdrawn_routes = arg.withdrawn_routes

-----------------------------------------------------------------------------
(* Termination of the attribute loops.                                     *)

\* An iteration after which the loop goes on has moved the cursor forward.
Advances == (op = "loop" /\ op' = "loop") => pos' > pos

\* The iterations after which the loop went on are no more than the bytes
\* the cursor has passed, and these no more than the declared bytes.
IterationsBounded ==
    /\ pos <= Len(stream)
    /\ arg.iterations <= pos + (IF op = "returned" THEN 1 ELSE 0)

\* C26: path-attribute parsing terminates on every input: each iteration of
\* the attribute loop of Update::parse and of the loop of ATTR_SET, one
\* whose attribute parse returns an error included, advances the cursor by
\* at least one byte or ends the loop, so that the loop makes no more
\* iterations than the buffer has bytes.
C26_LoopsTerminate == [][Advances]_vars /\ []IterationsBounded

\* An attribute failed to parse, the cursor moved past it and the loop goes
\* on inside the buffer.
C26_Witness ==
    /\ op = "loop"
    /\ arg.iterations > 1
    /\ res.st = "err"
    /\ 0 < pos
    /\ pos < Len(stream)

-----------------------------------------------------------------------------
(* The cursor of detect_add_path_prefix.                                   *)

\* C27: detect_add_path_prefix leaves the cursor where it was on entry, on
\* every return path, for every buffer, max_bit_len and starting position.
C27_CursorRestored ==
    [][op' = "detect_add_path_prefix" => pos' = pos]_vars

\* The look-ahead returned after both loops had moved the cursor: the first
\* loop passed and the second found a prefix with bits after its end.
C27_Witness ==
    /\ op = "detect_add_path_prefix"
    /\ res.val = TRUE
    /\ pos = 1
    /\ Len(stream) >= 6
    /\ stream[pos + 1] % 8 > 0

-----------------------------------------------------------------------------
(* The bytes Reader::read takes from the stream.                           *)

\* C28: after Reader::read returns Ok for a message whose header declares
\* the length L, the stream has advanced by exactly L bytes, for every kind
\* of message.
C28_AsStated ==
    (op = "Reader::read" /\ res.st = "ok") => pos = U16(SubSeq(stream, 17, 18))

-----------------------------------------------------------------------------
(* The bytes OpenCapability::parse reads and the count it reports.         *)

\* C29: for every capability OpenCapability::parse decodes successfully, the
\* number of bytes it read is the count it reports, 2 + cap_length, so that
\* the running total of OpenParameter::parse is the position of the cursor
\* inside the value of the parameter.
C29_AsStated ==
    (op = "OpenCapability::parse" /\ res.st = "ok") =>
        /\ res.val.len = 2 + stream[2]
        /\ pos = res.val.len

-----------------------------------------------------------------------------
(* Update::parse under two descriptors that differ in one flag.            *)

\* The descriptor with FOUR_OCTET_ASN_SUPPORT the other way round.
FlagFlipped(cp) == [cp EXCEPT !.FOUR_OCTET_ASN_SUPPORT = ~@]

\* C30: the outcome of Update::parse does not depend on
\* Capabilities.FOUR_OCTET_ASN_SUPPORT: parsing the same bytes under two
\* descriptors that differ only in that flag gives the same result.
C30_FlagIrrelevant ==
    op = "Update::parse" =>
        res = Update_parse(stream, 0, arg, FlagFlipped(caps), Build)

\* An UPDATE with an AS_PATH of 2-byte ASNs was parsed.
C30_Witness ==
    /\ op = "Update::parse"
    /\ res.st = "ok"
    /\ \E k \in 1..Len(res.val.attributes) :
          /\ res.val.attributes[k].id = 2
          /\ res.val.attributes[k].v # <<>>

=============================================================================
